---- MODULE Spec2Model ----
(***************************************************************************)
(* Verification model of the forest-server task core: the readiness        *)
(* resolver, the task selector, the schedule packer and the tool handlers  *)
(* that call them.                                                         *)
(*                                                                         *)
(* Text is modelled as a sequence of one-character strings so that the     *)
(* substring tests and regular-expression parses of the source are         *)
(* computed, not assumed.  A JSON document is a record; an absent key is   *)
(* a key outside the record's DOMAIN.                                      *)
(***************************************************************************)
EXTENDS Integers, Sequences, FiniteSets, TLC

VARIABLES
    nodes,          \* resolver/selector: the node list under test
    call,           \* the last function application, or the calls in flight
    pkIn,           \* packer: the arguments of createTimeBlocks
    blocks,         \* packer: const blocks = []
    currentTime,    \* packer: let currentTime
    readyTasks,     \* packer: the pool, spliced in place
    blockId,        \* packer: let blockId
    pkPc,           \* packer: position of the call
    globalConfig,   \* system: <dataDir>/config.json (activeProject)
    configDoc,      \* system: projects/<id>/config.json
    htaDoc,         \* system: projects/<id>/hta.json
    dayDoc,         \* system: projects/<id>/day_<date>.json
    claude,         \* system: the intelligence provider handed to the modules
    result,         \* system: what the last tool call returned
    historyDoc,     \* system: projects/<id>/learning_history.json
    clock,          \* system: Date.now(), in milliseconds
    hostPriorityHours   \* system: the global binding of priorityHours

resolverVars == <<nodes, call>>
packerVars == <<pkIn, blocks, currentTime, readyTasks, blockId, pkPc>>
systemVars == <<globalConfig, configDoc, htaDoc, dayDoc, claude, result,
                historyDoc, clock, hostPriorityHours>>
vars == <<nodes, call, pkIn, blocks, currentTime, readyTasks, blockId, pkPc,
          globalConfig, configDoc, htaDoc, dayDoc, claude, result,
          historyDoc, clock, hostPriorityHours>>

-----------------------------------------------------------------------------
(* Bounds *)

MaxNodes == 2
MaxSelectorNodes == 2
MaxPool == 2
MaxCompletions == 2
MaxEvolutions == 2
MaxClock == 1
MaxStrategyNodes == 3
MaxBranchCompletions == 30
MaxOtherCompletions == 2

-----------------------------------------------------------------------------
(* JavaScript helpers *)

\* null / undefined: a record, so that it compares with any document
Null == [null |-> TRUE]

\* the empty object {}
EmptyDoc == [k \in {} |-> TRUE]

\* createTimeBlocks reads the identifier priorityHours (line 215).  It is not
\* a parameter of createTimeBlocks, and the let of that name is local to
\* generateComprehensiveSchedule, so the read resolves in the global
\* environment: Unresolvable when no global of that name exists (the read
\* throws a ReferenceError), a list of hours when the host defines one.
Unresolvable == [unresolvable |-> TRUE]

\* what the identifier priorityHours resolves to inside createTimeBlocks in
\* the server as shipped: no module or script defines a global of that name
globalPriorityHours == Unresolvable

Range(s) == {s[i] : i \in 1..Len(s)}

Has(doc, key) == key \in DOMAIN doc

\* x || dflt for a numeric field: an absent key and 0 are both falsy
NumOr(doc, key, dflt) ==
    IF Has(doc, key) /\ doc[key] # 0 THEN doc[key] ELSE dflt

\* x || [] for a list field
ListOr(doc, key) == IF Has(doc, key) THEN doc[key] ELSE <<>>

\* truthiness of a boolean flag that may be absent
Flag(doc, key) == Has(doc, key) /\ doc[key]

Abs(x) == IF x < 0 THEN -x ELSE x
Min(a, b) == IF a < b THEN a ELSE b
Max(a, b) == IF a > b THEN a ELSE b

\* Array.prototype.sort with comparator (a, b) => key(b) - key(a): stable,
\* descending in keys[i], the key of s[i]
SortDesc(s, keys) ==
    LET n == Len(s)
        rank(i) == 1 + Cardinality({j \in 1..n :
                        keys[j] > keys[i] \/ (keys[j] = keys[i] /\ j < i)})
    IN [r \in 1..n |-> s[CHOOSE i \in 1..n : rank(i) = r]]

-----------------------------------------------------------------------------
(* Readiness resolver *)

\* mutant of prereqMet: any node of the list satisfies a prerequisite,
\* completed or not
prereqMet_AnyNode(list, prereq) ==
    \/ \E i \in 1..Len(list) : list[i].id = prereq
    \/ \E i \in 1..Len(list) : list[i].title = prereq

\* the filter callback shared verbatim by the four readiness computations:
\* not completed, and every prerequisite is a completed node's id or title
prereqMet(list, prereq) ==
    \/ \E i \in 1..Len(list) : Flag(list[i], "completed") /\ list[i].id = prereq
    \/ \E i \in 1..Len(list) : list[i].title = prereq /\ Flag(list[i], "completed")

\* mutant of isReady: the completed test dropped
isReady_IgnoresCompleted(list, node) ==
    IF Has(node, "prerequisites") /\ Len(node.prerequisites) > 0
    THEN \A k \in 1..Len(node.prerequisites) :
             prereqMet(list, node.prerequisites[k])
    ELSE TRUE

isReady(list, node) ==
    IF Flag(node, "completed") THEN FALSE
    ELSE IF Has(node, "prerequisites") /\ Len(node.prerequisites) > 0
         THEN \A k \in 1..Len(node.prerequisites) :
                  prereqMet(list, node.prerequisites[k])
         ELSE TRUE

readyFilter(list) == SelectSeq(list, LAMBDA n : isReady(list, n))

\* mutant of getReadyTasks: the sort without the filter
getReadyTasks_Unfiltered(htaData) ==
    LET list == ListOr(htaData, "frontierNodes")
    IN SortDesc(list, [i \in 1..Len(list) |-> NumOr(list[i], "priority", 200)])

\* ScheduleGenerator.getReadyTasks
getReadyTasks(htaData) ==
    LET list == ListOr(htaData, "frontierNodes")
        ready == readyFilter(list)
    IN SortDesc(ready, [i \in 1..Len(ready) |-> NumOr(ready[i], "priority", 200)])

\* HtaStatus.getReadyNodes
getReadyNodes(list) == readyFilter(list)

\* TaskIntelligence.getAvailableTasksCount
getAvailableTasksCount(htaData) ==
    Len(readyFilter(ListOr(htaData, "frontier_nodes")))

-----------------------------------------------------------------------------
(* Text *)

CharAt(s, i) == SubSeq(s, i, i)

UpperChars == "ABCDEFGHIJKLMNOPQRSTUVWXYZ"
LowerChars == "abcdefghijklmnopqrstuvwxyz"
Digits == "0123456789"

UpperSet == {CharAt(UpperChars, k) : k \in 1..26}
lowerOf ==
    [c \in UpperSet |-> CharAt(LowerChars, CHOOSE k \in 1..26 : CharAt(UpperChars, k) = c)]
DigitSet == {CharAt(Digits, k) : k \in 1..10}
digitOf == [c \in DigitSet |-> (CHOOSE k \in 1..10 : CharAt(Digits, k) = c) - 1]

lowerChar(c) == IF c \in UpperSet THEN lowerOf[c] ELSE c

RECURSIVE toLowerCase(_)
toLowerCase(s) ==
    IF Len(s) = 0 THEN s
    ELSE lowerChar(CharAt(s, 1)) \o toLowerCase(SubSeq(s, 2, Len(s)))

\* String.prototype.includes
includes(s, sub) ==
    \E i \in 0..(Len(s) - Len(sub)) : SubSeq(s, i + 1, i + Len(sub)) = sub

startsWith(s, pre) == Len(s) >= Len(pre) /\ SubSeq(s, 1, Len(pre)) = pre

\* String.prototype.split on a one-character separator
RECURSIVE split(_, _)
split(s, sep) ==
    IF \A i \in 1..Len(s) : CharAt(s, i) # sep THEN <<s>>
    ELSE LET i == CHOOSE i \in 1..Len(s) :
                      CharAt(s, i) = sep /\ \A j \in 1..(i - 1) : CharAt(s, j) # sep
         IN <<SubSeq(s, 1, i - 1)>> \o split(SubSeq(s, i + 1, Len(s)), sep)

isDigit(c) == c \in DigitSet
digitVal(c) == digitOf[c]

\* parseInt of a string of decimal digits
RECURSIVE parseInt(_)
parseInt(s) ==
    IF Len(s) = 0 THEN 0
    ELSE 10 * parseInt(SubSeq(s, 1, Len(s) - 1)) + digitVal(CharAt(s, Len(s)))

\* end of the run of characters satisfying the class that starts at i
\* (i - 1 when s[i] is not in the class)
RECURSIVE digitRunEnd(_, _)
digitRunEnd(s, i) ==
    IF i <= Len(s) /\ isDigit(CharAt(s, i)) THEN digitRunEnd(s, i + 1) ELSE i - 1

RECURSIVE spaceRunEnd(_, _)
spaceRunEnd(s, i) ==
    IF i <= Len(s) /\ CharAt(s, i) = " " THEN spaceRunEnd(s, i + 1) ELSE i - 1

\* the match of /(\d+)\s*(u1|u2|...)/i that starts at i, units tried in order;
\* <<>> when there is none.  Greedy \d+ and \s* decide the match: giving back
\* a digit or a blank leaves a digit or a blank where the unit must start.
matchAt(s, i, units) ==
    LET j == digitRunEnd(s, i)
        k == spaceRunEnd(s, j + 1) + 1
        rest == toLowerCase(SubSeq(s, k, Min(Len(s), k + 5)))
        hits == {u \in 1..Len(units) : startsWith(rest, units[u])}
    IN IF j < i \/ hits = {} THEN <<>>
       ELSE <<parseInt(SubSeq(s, i, j)),
              units[CHOOSE u \in hits : \A v \in hits : u <= v]>>

\* String.prototype.match: the leftmost match
regexMatch(s, units) ==
    LET starts == {i \in 1..Len(s) :
                      isDigit(CharAt(s, i)) /\ matchAt(s, i, units) # <<>>}
    IN IF starts = {} THEN <<>>
       ELSE matchAt(s, CHOOSE i \in starts : \A j \in starts : i <= j, units)

\* TaskIntelligence.parseTimeToMinutes
parseTimeToMinutes(timeStr) ==
    LET matches == regexMatch(timeStr, <<"minute", "hour", "min", "hr">>)
    IN IF matches = <<>> THEN 30
       ELSE IF startsWith(matches[2], "hour") \/ startsWith(matches[2], "hr")
            THEN matches[1] * 60
            ELSE matches[1]

\* ScheduleGenerator.parseDuration
parseDuration(durationStr) ==
    LET matches == regexMatch(durationStr, <<"minute", "hour">>)
    IN IF matches = <<>> THEN 30
       ELSE IF startsWith(matches[2], "hour") THEN matches[1] * 60
            ELSE matches[1]

-----------------------------------------------------------------------------
(* Task selector *)

\* task.duration || "30 minutes"
durationOr(task) ==
    IF Has(task, "duration") /\ task.duration # "" THEN task.duration
    ELSE "30 minutes"

\* TaskIntelligence.isContextRelevant; title + " " + description stringifies
\* an absent description as "undefined"
isContextRelevant(task, context) ==
    LET taskText == toLowerCase(task.title \o " " \o
                       (IF Has(task, "description") THEN task.description
                        ELSE "undefined"))
        words == split(toLowerCase(context), " ")
        keywords == SelectSeq(words, LAMBDA w : Len(w) > 3)
    IN \E k \in 1..Len(keywords) : includes(taskText, keywords[k])

\* mutant of calculateTaskScore: the distance taken without Math.abs
calculateTaskScore_NoAbs(task, energyLevel, timeInMinutes, contextFromMemory) ==
    LET taskDifficulty == NumOr(task, "difficulty", 3)
        energyMatch == 5 - (energyLevel - taskDifficulty)
        taskDuration == parseTimeToMinutes(durationOr(task))
        timeMatch == IF timeInMinutes >= taskDuration THEN 30 ELSE -50
    IN NumOr(task, "priority", 200)
       + energyMatch * 20
       + timeMatch
       + (IF contextFromMemory # "" /\ isContextRelevant(task, contextFromMemory)
          THEN 50 ELSE 0)
       + (IF Has(task, "opportunityType")
             /\ task.opportunityType = "breakthrough_amplification"
          THEN 100 ELSE 0)
       + (IF Flag(task, "generated") THEN 25 ELSE 0)

\* TaskIntelligence.calculateTaskScore
calculateTaskScore(task, energyLevel, timeInMinutes, contextFromMemory) ==
    LET taskDifficulty == NumOr(task, "difficulty", 3)
        energyMatch == 5 - Abs(energyLevel - taskDifficulty)
        taskDuration == parseTimeToMinutes(durationOr(task))
        timeMatch == IF timeInMinutes >= taskDuration THEN 30 ELSE -50
    IN NumOr(task, "priority", 200)
       + energyMatch * 20
       + timeMatch
       + (IF contextFromMemory # "" /\ isContextRelevant(task, contextFromMemory)
          THEN 50 ELSE 0)
       + (IF Has(task, "opportunityType")
             /\ task.opportunityType = "breakthrough_amplification"
          THEN 100 ELSE 0)
       + (IF Flag(task, "generated") THEN 25 ELSE 0)

\* the availableTasks filter of selectOptimalTask
availableTasks(htaData) == readyFilter(ListOr(htaData, "frontier_nodes"))

\* mutant of selectOptimalTask: a sort that puts the later of two equal
\* scores first
selectOptimalTask_UnstableSort(htaData, energyLevel, timeAvailable, contextFromMemory) ==
    LET avail == readyFilter(ListOr(htaData, "frontier_nodes"))
        timeInMinutes == parseTimeToMinutes(timeAvailable)
        n == Len(avail)
        reversed == [i \in 1..n |-> avail[n + 1 - i]]
        scoredTasks == [i \in 1..n |->
                           [task |-> reversed[i],
                            score |-> calculateTaskScore(reversed[i], energyLevel,
                                          timeInMinutes, contextFromMemory)]]
        sorted == SortDesc(scoredTasks, [i \in 1..n |-> scoredTasks[i].score])
    IN IF n = 0 THEN Null ELSE sorted[1]

\* TaskIntelligence.selectOptimalTask: the scored copy of the best task, or Null
selectOptimalTask(htaData, energyLevel, timeAvailable, contextFromMemory) ==
    LET avail == availableTasks(htaData)
        timeInMinutes == parseTimeToMinutes(timeAvailable)
        score(t) == calculateTaskScore(t, energyLevel, timeInMinutes,
                                       contextFromMemory)
        scoredTasks == [i \in 1..Len(avail) |->
                           [task |-> avail[i], score |-> score(avail[i])]]
        sorted == SortDesc(scoredTasks,
                           [i \in 1..Len(avail) |-> scoredTasks[i].score])
    IN IF Len(avail) = 0 THEN Null ELSE sorted[1]


-----------------------------------------------------------------------------
(* Specification SpecResolver: the readiness computations applied to every  *)
(* node list of at most MaxNodes nodes.  Prerequisites name a node by id    *)
(* ("a", "b"), by title ("A", "B"), or name no node at all ("zz").          *)

NoCall == [fn |-> "none"]

PrereqLists ==
    {<<>>, <<"a">>, <<"zz">>, <<"b", "A">>, <<"a", "zz">>}

ResolverNodes ==
    {[id |-> t[1], title |-> t[2], completed |-> c] :
        t \in {<<"a", "A">>, <<"b", "B">>}, c \in BOOLEAN}
    \cup
    {[id |-> t[1], title |-> t[2], completed |-> c, prerequisites |-> p] :
        t \in {<<"a", "A">>, <<"b", "B">>}, c \in BOOLEAN, p \in PrereqLists}

IdleResolver == nodes = <<>> /\ call = NoCall
IdlePacker ==
    /\ pkIn = Null /\ blocks = <<>> /\ currentTime = 0
    /\ readyTasks = <<>> /\ blockId = 1 /\ pkPc = "idle"
IdleSystem ==
    /\ globalConfig = Null /\ configDoc = Null /\ htaDoc = Null
    /\ dayDoc = Null /\ claude = "absent" /\ result = Null
    /\ historyDoc = Null /\ clock = 0
    /\ hostPriorityHours = globalPriorityHours

AddNode(universe, max) ==
    /\ Len(nodes) < max
    /\ \E n \in universe : nodes' = Append(nodes, n)
    /\ call' = NoCall
    /\ UNCHANGED <<packerVars, systemVars>>

AddResolverNode == AddNode(ResolverNodes, MaxNodes)

CallGetReadyTasks ==
    /\ call = NoCall
    /\ call' = [fn |-> "getReadyTasks",
                out |-> getReadyTasks([frontierNodes |-> nodes])]
    /\ UNCHANGED <<nodes, packerVars, systemVars>>

CallGetReadyNodes ==
    /\ call = NoCall
    /\ call' = [fn |-> "getReadyNodes", out |-> getReadyNodes(nodes)]
    /\ UNCHANGED <<nodes, packerVars, systemVars>>

CallGetAvailableTasksCount ==
    /\ call = NoCall
    /\ call' = [fn |-> "getAvailableTasksCount",
                out |-> getAvailableTasksCount([frontier_nodes |-> nodes])]
    /\ UNCHANGED <<nodes, packerVars, systemVars>>

CallSelectOptimalTask(energyLevel, timeAvailable, contextFromMemory) ==
    /\ call = NoCall
    /\ call' = [fn |-> "selectOptimalTask",
                energyLevel |-> energyLevel,
                timeAvailable |-> timeAvailable,
                contextFromMemory |-> contextFromMemory,
                avail |-> availableTasks([frontier_nodes |-> nodes]),
                out |-> selectOptimalTask([frontier_nodes |-> nodes],
                            energyLevel, timeAvailable, contextFromMemory)]
    /\ UNCHANGED <<nodes, packerVars, systemVars>>

CallSelectDefault == CallSelectOptimalTask(3, "30 minutes", "")

InitResolver == IdleResolver /\ IdlePacker /\ IdleSystem

NextResolver ==
    \/ AddResolverNode
    \/ CallGetReadyTasks
    \/ CallGetReadyNodes
    \/ CallGetAvailableTasksCount
    \/ CallSelectDefault

SpecResolver == InitResolver /\ [][NextResolver]_vars

\* what the spec calls ready, stated over the list alone
noPrereqs(n) == ~Has(n, "prerequisites") \/ n.prerequisites = <<>>

completedIds == {nodes[i].id : i \in {j \in 1..Len(nodes) : nodes[j].completed}}
completedTitles == {nodes[i].title : i \in {j \in 1..Len(nodes) : nodes[j].completed}}

hasUnmetPrereq(n) ==
    /\ Has(n, "prerequisites")
    /\ \E p \in Range(n.prerequisites) : p \notin completedIds /\ p \notin completedTitles

\* the set a readiness call computed
readySetOf(c) ==
    IF c.fn = "selectOptimalTask" THEN Range(c.avail) ELSE Range(c.out)

\* C1: in every readiness computation (schedule generator, status report,
\* task selector, available-task count) a node with an empty or absent
\* prerequisite list is in the ready set iff it is not completed; for the
\* count, a list of such nodes only counts exactly its uncompleted nodes.
C1_NoPrereqReadyIffNotCompleted ==
    /\ call.fn \in {"getReadyTasks", "getReadyNodes", "selectOptimalTask"} =>
          \A i \in 1..Len(nodes) :
              noPrereqs(nodes[i]) =>
                  (nodes[i] \in readySetOf(call) <=> ~nodes[i].completed)
    /\ (call.fn = "getAvailableTasksCount"
        /\ \A i \in 1..Len(nodes) : noPrereqs(nodes[i])) =>
          call.out = Cardinality({i \in 1..Len(nodes) : ~nodes[i].completed})

C1_Witness ==
    /\ call.fn = "getReadyTasks"
    /\ \E i, j \in 1..Len(nodes) :
          /\ ~Has(nodes[i], "prerequisites") /\ ~nodes[i].completed
          /\ nodes[i] \in Range(call.out)
          /\ Has(nodes[j], "prerequisites") /\ nodes[j].prerequisites = <<>>
          /\ nodes[j].completed
          /\ nodes[j] \notin Range(call.out)

\* C2: a node with at least one prerequisite that is neither a completed
\* node's id nor a completed node's title is in no ready set and is never the
\* selected task; an orphaned prerequisite ("zz" names no node) is such a one.
C2_UnmetPrereqNeverReady ==
    /\ call.fn \in {"getReadyTasks", "getReadyNodes", "selectOptimalTask"} =>
          \A i \in 1..Len(nodes) :
              hasUnmetPrereq(nodes[i]) => nodes[i] \notin readySetOf(call)
    /\ (call.fn = "selectOptimalTask" /\ call.out # Null) =>
          ~hasUnmetPrereq(call.out.task)
    /\ (call.fn = "getAvailableTasksCount") =>
          call.out <= Cardinality({i \in 1..Len(nodes) : ~hasUnmetPrereq(nodes[i])})

C2_Witness ==
    /\ call.fn = "getReadyTasks"
    /\ Len(nodes) = 2
    /\ nodes[1].completed /\ nodes[1].id = "a"
    /\ ~nodes[2].completed /\ Has(nodes[2], "prerequisites")
    /\ nodes[2].prerequisites = <<"a", "zz">>
    /\ call.out = <<>>

-----------------------------------------------------------------------------
(* Specification SpecSelector: selectOptimalTask and calculateTaskScore     *)
(* applied to node lists of at most MaxSelectorNodes scored nodes.          *)

Profiles ==
    {[difficulty |-> 2, priority |-> 220, duration |-> "20 minutes", generated |-> FALSE],
     [difficulty |-> 3, priority |-> 0, duration |-> "1 hour", generated |-> FALSE],
     [difficulty |-> 5, priority |-> 200, duration |-> "45 min", generated |-> TRUE]}

SelectorNodes ==
    {[id |-> "a", title |-> "Deep work", description |-> "Focus session",
      completed |-> c, prerequisites |-> <<>>,
      difficulty |-> p.difficulty, priority |-> p.priority,
      duration |-> p.duration, generated |-> p.generated] :
        c \in BOOLEAN, p \in Profiles}
    \cup
    {[id |-> "b", title |-> "Read notes", completed |-> FALSE,
      difficulty |-> p.difficulty, priority |-> p.priority,
      duration |-> p.duration, generated |-> p.generated] : p \in Profiles}
    \cup
    {[id |-> "c", title |-> "Amplify: Deep work Success", description |-> "",
      completed |-> FALSE, prerequisites |-> <<"a">>, difficulty |-> 4,
      priority |-> 350, opportunityType |-> "breakthrough_amplification"],
     [id |-> "c", title |-> "Follow Up: External Interest", description |-> "",
      completed |-> FALSE, prerequisites |-> <<"a">>, difficulty |-> 2,
      duration |-> "30 minutes", priority |-> 300, opportunityType |-> "networking"]}

SelectorEnergies == {2, 3, 5}
SelectorTimes == {"30 min", "2 hr"}
SelectorContexts == {"", "need Deep focus"}

AddSelectorNode == AddNode(SelectorNodes, MaxSelectorNodes)

CallSelect ==
    \E e \in SelectorEnergies, t \in SelectorTimes, c \in SelectorContexts :
        CallSelectOptimalTask(e, t, c)

\* calculateTaskScore applied to one node of the list at each difficulty 1..5,
\* everything else fixed
CallCalculateTaskScore ==
    /\ call = NoCall
    /\ \E i \in 1..Len(nodes), e \in 1..5, c \in SelectorContexts :
          call' = [fn |-> "calculateTaskScore",
                   energyLevel |-> e,
                   scores |-> [d \in 1..5 |->
                       calculateTaskScore(
                           [k \in DOMAIN nodes[i] \cup {"difficulty"} |->
                               IF k = "difficulty" THEN d ELSE nodes[i][k]],
                           e, parseTimeToMinutes("30 min"), c)]]
    /\ UNCHANGED <<nodes, packerVars, systemVars>>

InitSelector == IdleResolver /\ IdlePacker /\ IdleSystem

NextSelector ==
    \/ AddSelectorNode
    \/ CallSelect
    \/ CallCalculateTaskScore

SpecSelector == InitSelector /\ [][NextSelector]_vars

scoreIn(c, n) ==
    calculateTaskScore(n, c.energyLevel, parseTimeToMinutes(c.timeAvailable),
                       c.contextFromMemory)

\* positions of the nodes the spec calls ready
readyPositions ==
    {i \in 1..Len(nodes) : ~nodes[i].completed /\ ~hasUnmetPrereq(nodes[i])}

\* C3: selectOptimalTask returns null iff no node is ready; otherwise it
\* returns a ready node whose score is the highest among the ready nodes and
\* which is the earliest in list order among the nodes of that score.  (The
\* result is a function of the arguments: nothing else is read.)
C3_SelectsFirstHighestScore ==
    call.fn = "selectOptimalTask" =>
        /\ (call.out = Null) <=> (readyPositions = {})
        /\ call.out # Null =>
              \E i \in readyPositions :
                  /\ call.out.task = nodes[i]
                  /\ call.out.score = scoreIn(call, nodes[i])
                  /\ \A j \in readyPositions :
                        /\ scoreIn(call, nodes[j]) <= call.out.score
                        /\ (scoreIn(call, nodes[j]) = call.out.score /\ j < i)
                              => nodes[j] = nodes[i]

\* two different ready nodes tie for the top score and the first one wins
C3_Witness ==
    /\ call.fn = "selectOptimalTask"
    /\ Len(nodes) = 2
    /\ readyPositions = {1, 2}
    /\ nodes[1] # nodes[2]
    /\ scoreIn(call, nodes[1]) = scoreIn(call, nodes[2])
    /\ call.out # Null
    /\ call.out.task = nodes[1]

\* C5: with energy level, time, context and the other attributes fixed, a
\* difficulty in 1..5 that is closer to the energy level scores strictly
\* higher, by 20 per unit of distance.
C5_ScoreIncreasesTowardsEnergy ==
    call.fn = "calculateTaskScore" =>
        \A d1, d2 \in 1..5 :
            LET dist1 == Abs(call.energyLevel - d1)
                dist2 == Abs(call.energyLevel - d2)
            IN /\ dist1 < dist2 => call.scores[d1] > call.scores[d2]
               /\ call.scores[d1] - call.scores[d2] = 20 * (dist2 - dist1)

C5_Witness ==
    /\ call.fn = "calculateTaskScore"
    /\ call.energyLevel = 4
    /\ call.scores[4] = call.scores[3] + 20
    /\ call.scores[4] = call.scores[1] + 60
    /\ call.scores[5] = call.scores[3]

-----------------------------------------------------------------------------
(* Schedule packer *)

\* String(n).padStart(2, "0")
padStart2(n) == IF n < 10 THEN "0" \o ToString(n) ELSE ToString(n)

\* Math.floor(a / b) for b > 0
floorDiv(a, b) == a \div b

\* ScheduleGenerator.parseTime: "H:MM AM" to minutes since midnight
parseTime(timeStr) ==
    IF timeStr = "" THEN 420
    ELSE LET parts == split(timeStr, " ")
             hm == split(parts[1], ":")
             period == IF Len(parts) >= 2 THEN toLowerCase(parts[2]) ELSE ""
             hours == parseInt(hm[1])
             minutes == IF Len(hm) >= 2 THEN parseInt(hm[2]) ELSE 0
         IN IF period = "pm" /\ hours # 12 THEN hours * 60 + minutes + 12 * 60
            ELSE IF period = "am" /\ hours = 12 THEN minutes
            ELSE hours * 60 + minutes

\* ScheduleGenerator.formatTime
formatTime(minutes) ==
    LET hours == floorDiv(minutes, 60)
        mins == minutes % 60
        period == IF hours >= 12 THEN "PM" ELSE "AM"
        displayHours == IF hours > 12 THEN hours - 12
                        ELSE IF hours = 0 THEN 12 ELSE hours
    IN ToString(displayHours) \o ":" \o padStart2(mins) \o " " \o period

\* ScheduleGenerator.parseMealTimes
parseMealTimes(mealTimes) == [i \in 1..Len(mealTimes) |-> parseTime(mealTimes[i])]

\* ScheduleGenerator.isMealTime
isMealTime(time, mealTimes) ==
    \E i \in 1..Len(mealTimes) : Abs(time - mealTimes[i]) <= 15

\* ScheduleGenerator.getMealType
getMealType(time, mealTimes) ==
    LET hour == floorDiv(time, 60)
    IN IF hour <= 10 THEN "Breakfast"
       ELSE IF hour <= 14 THEN "Lunch"
       ELSE IF hour <= 16 THEN "Snack"
       ELSE "Dinner"

\* preferences.key || dflt for a text preference
TextOr(doc, key, dflt) ==
    IF Has(doc, key) /\ doc[key] # "" THEN doc[key] ELSE dflt

\* ScheduleGenerator.getBreakDuration
getBreakDuration(preferences) ==
    LET breakPref == TextOr(preferences, "break_preferences", "every hour")
    IN IF includes(breakPref, "15") THEN 15
       ELSE IF includes(breakPref, "10") THEN 10
       ELSE IF includes(breakPref, "5") THEN 5
       ELSE 15

\* mutant of generateHabitBlock: the daytime transition takes no time
generateHabitBlock_InstantTransition(time) ==
    IF floorDiv(time, 60) <= 9 THEN [title |-> "Morning Routine", duration |-> 30]
    ELSE IF floorDiv(time, 60) >= 19 THEN [title |-> "Evening Wind-down", duration |-> 45]
    ELSE [title |-> "Mindful Transition", duration |-> 0]

\* mutant of generateHabitBlock: the evening starts an hour later
generateHabitBlock_LateEvening(time) ==
    IF floorDiv(time, 60) <= 9 THEN [title |-> "Morning Routine", duration |-> 30]
    ELSE IF floorDiv(time, 60) >= 20 THEN [title |-> "Evening Wind-down", duration |-> 45]
    ELSE [title |-> "Mindful Transition", duration |-> 15]

\* ScheduleGenerator.generateHabitBlock
generateHabitBlock(time) ==
    LET hour == floorDiv(time, 60)
    IN IF hour <= 9 THEN [title |-> "Morning Routine", duration |-> 30]
       ELSE IF hour >= 19 THEN [title |-> "Evening Wind-down", duration |-> 45]
       ELSE [title |-> "Mindful Transition", duration |-> 15]

\* Math.round(b * 1.5) and Math.round(b * 0.7) in IEEE doubles, for the base
\* durations below 175 minutes: b * 1.5 is exact, and b * 0.7 falls just
\* under the half at 45, 85 and 165, where it rounds down
roundTimes15(b) == (3 * b + 1) \div 2
roundTimes07(b) ==
    IF b \in {45, 85, 165} THEN (7 * b + 5) \div 10 - 1 ELSE (7 * b + 5) \div 10

\* mutant of calculateTaskDuration: the energy multipliers exchanged
calculateTaskDuration_MultipliersExchanged(task, preferences, energyLevel) ==
    LET baseDuration == parseDuration(durationOr(task))
        focusDuration == TextOr(preferences, "focus_duration", "flexible")
        scaled == IF energyLevel >= 4 THEN roundTimes07(baseDuration)
                  ELSE IF energyLevel <= 2 THEN roundTimes15(baseDuration)
                  ELSE baseDuration
    IN IF includes(focusDuration, "25") THEN 25
       ELSE IF includes(focusDuration, "1 hour") THEN 60
       ELSE IF includes(focusDuration, "2 hour") THEN Min(120, baseDuration * 2)
       ELSE Max(15, Min(120, scaled))

\* ScheduleGenerator.calculateTaskDuration
calculateTaskDuration(task, preferences, energyLevel) ==
    LET baseDuration == parseDuration(durationOr(task))
        focusDuration == TextOr(preferences, "focus_duration", "flexible")
        scaled == IF energyLevel >= 4 THEN roundTimes15(baseDuration)
                  ELSE IF energyLevel <= 2 THEN roundTimes07(baseDuration)
                  ELSE baseDuration
    IN IF includes(focusDuration, "25") THEN 25
       ELSE IF includes(focusDuration, "1 hour") THEN 60
       ELSE IF includes(focusDuration, "2 hour") THEN Min(120, baseDuration * 2)
       ELSE Max(15, Min(120, scaled))

\* the difficulty band of selectTaskForTimeSlot
inBand(task, time, energyLevel) ==
    LET hour == floorDiv(time, 60)
        isHighEnergyTime == hour >= 9 /\ hour <= 11
        taskDifficulty == NumOr(task, "difficulty", 1)
    IN IF energyLevel >= 4 /\ isHighEnergyTime THEN taskDifficulty >= 2
       ELSE IF energyLevel <= 2 THEN taskDifficulty <= 2
       ELSE taskDifficulty <= 3

\* mutant of selectTaskForTimeSlot: the last suitable task instead of the first
selectTaskForTimeSlot_LastSuitable(pool, time, energyLevel, focusType) ==
    IF Len(pool) = 0
    THEN [id |-> "explore_general", title |-> "Explore: General Learning",
          description |-> "Explore general learning opportunities",
          difficulty |-> 1, duration |-> 30]
    ELSE LET suitableTasks == SelectSeq(pool, LAMBDA t : inBand(t, time, energyLevel))
         IN IF Len(suitableTasks) = 0 THEN pool[Len(pool)]
            ELSE suitableTasks[Len(suitableTasks)]

\* ScheduleGenerator.selectTaskForTimeSlot
selectTaskForTimeSlot(pool, time, energyLevel, focusType) ==
    IF Len(pool) = 0
    THEN [id |-> "explore_general", title |-> "Explore: General Learning",
          description |-> "Explore general learning opportunities",
          difficulty |-> 1, duration |-> 30]
    ELSE LET suitableTasks == SelectSeq(pool, LAMBDA t : inBand(t, time, energyLevel))
         IN IF Len(suitableTasks) = 0 THEN pool[1] ELSE suitableTasks[1]

\* mutant of removeTask: the selected task stays in the pool
removeTask_Keeps(pool, task) == pool

\* readyTasks.splice(readyTasks.indexOf(task), 1)
removeTask(pool, task) ==
    IF \E i \in 1..Len(pool) : pool[i] = task
    THEN LET taskIndex == CHOOSE i \in 1..Len(pool) :
                              pool[i] = task /\ \A j \in 1..(i - 1) : pool[j] # task
         IN SubSeq(pool, 1, taskIndex - 1) \o SubSeq(pool, taskIndex + 1, Len(pool))
    ELSE pool

\* mutant of mealBlock: a one-hour meal under a cursor that advances by 45
mealBlock_OneHour(time, mealTimes, n) ==
    [id |-> "meal_" \o ToString(n), type |-> "meal",
     title |-> getMealType(time, mealTimes), startTime |-> formatTime(time),
     duration |-> 60, completed |-> FALSE, priority |-> "high"]

mealBlock(time, mealTimes, n) ==
    [id |-> "meal_" \o ToString(n), type |-> "meal",
     title |-> getMealType(time, mealTimes), startTime |-> formatTime(time),
     duration |-> 45, completed |-> FALSE, priority |-> "high"]

learningBlock(task, time, duration, n) ==
    [id |-> "task_" \o ToString(n), type |-> "learning", title |-> task.title,
     startTime |-> formatTime(time), duration |-> duration,
     description |-> TextOr(task, "description", ""),
     difficulty |-> NumOr(task, "difficulty", 0), taskId |-> task.id,
     branch |-> TextOr(task, "branch", ""),
     completed |-> FALSE, priority |-> NumOr(task, "priority", 200)]

breakBlock(time, preferences, n) ==
    [id |-> "break_" \o ToString(n), type |-> "break",
     title |-> "Break & Reflection", startTime |-> formatTime(time),
     duration |-> getBreakDuration(preferences), completed |-> FALSE,
     priority |-> "medium"]

habitBlock(time, n) ==
    [id |-> "habit_" \o ToString(n), type |-> "habit",
     title |-> generateHabitBlock(time).title, startTime |-> formatTime(time),
     duration |-> generateHabitBlock(time).duration, completed |-> FALSE,
     priority |-> "low"]

\* mutant of iterationKind: the learning branch tested before the meal branch
iterationKind_LearningFirst(in, st) ==
    IF in.priorityHours = Unresolvable THEN "throw"
    ELSE LET hour == floorDiv(st.currentTime, 60)
             isAvailableHour == Len(in.priorityHours) = 0
                                \/ hour \in Range(in.priorityHours)
         IN IF isAvailableHour /\ Len(st.readyTasks) > 0 THEN "learning"
            ELSE IF isMealTime(st.currentTime, in.mealTimes) THEN "meal"
            ELSE "habit"

\* which branch one iteration of the while loop takes at the cursor
iterationKind(in, st) ==
    IF in.priorityHours = Unresolvable THEN "throw"
    ELSE LET hour == floorDiv(st.currentTime, 60)
             isAvailableHour == Len(in.priorityHours) = 0
                                \/ hour \in Range(in.priorityHours)
         IN IF isMealTime(st.currentTime, in.mealTimes) THEN "meal"
            ELSE IF isAvailableHour /\ Len(st.readyTasks) > 0 THEN "learning"
            ELSE "habit"

\* the safety check that ends an iteration: if (blocks.length > 50) break
afterIteration(st) ==
    [st EXCEPT !.pc = IF Len(st.blocks) > 50 THEN "returned" ELSE "loop"]

\* one iteration of the while loop of createTimeBlocks (lines 212-299)
iterate(in, st) ==
    LET kind == iterationKind(in, st)
        time == st.currentTime
    IN IF kind = "throw" THEN [st EXCEPT !.pc = "threw"]
       ELSE IF kind = "meal" THEN
           afterIteration([st EXCEPT
               !.blocks = Append(@, mealBlock(time, in.mealTimes, st.blockId)),
               !.blockId = @ + 1,
               !.currentTime = @ + 45])
       ELSE IF kind = "learning" THEN
           LET task == selectTaskForTimeSlot(st.readyTasks, time,
                                             in.energyLevel, in.focusType)
               duration == calculateTaskDuration(task, in.preferences, in.energyLevel)
               withBreak == time + duration < in.sleepTime - 30
               learn == learningBlock(task, time, duration, st.blockId)
               brk == breakBlock(time + duration, in.preferences, st.blockId + 1)
           IN afterIteration([st EXCEPT
                  !.blocks = IF withBreak THEN @ \o <<learn, brk>> ELSE Append(@, learn),
                  !.blockId = IF withBreak THEN @ + 2 ELSE @ + 1,
                  !.readyTasks = removeTask(@, task),
                  !.currentTime = IF withBreak
                                  THEN time + duration + getBreakDuration(in.preferences)
                                  ELSE time + duration])
       ELSE
           afterIteration([st EXCEPT
               !.blocks = Append(@, habitBlock(time, st.blockId)),
               !.blockId = @ + 1,
               !.currentTime = @ + generateHabitBlock(time).duration])

\* the state createTimeBlocks starts its loop in (lines 206-209)
loopStart(in) ==
    [blocks |-> <<>>, currentTime |-> in.wakeTime, readyTasks |-> in.readyTasks,
     blockId |-> 1, pc |-> "loop"]

\* while (currentTime < endTime) ... return blocks
RECURSIVE runLoop(_, _)
runLoop(in, st) ==
    IF st.pc # "loop" THEN st
    ELSE IF st.currentTime < in.sleepTime THEN runLoop(in, iterate(in, st))
    ELSE [st EXCEPT !.pc = "returned"]

\* ScheduleGenerator.createTimeBlocks: the final loop state; pc "returned"
\* with the block list, or pc "threw"
createTimeBlocks(in) == runLoop(in, loopStart(in))

-----------------------------------------------------------------------------
(* Specification SpecPacker: createTimeBlocks run one loop iteration at a   *)
(* time, for every combination of the arguments below.  The pool is what    *)
(* getReadyTasks returns for a frontier of distinct tasks.                  *)

PackerTasks ==
    {[id |-> "t1", title |-> "Explore", difficulty |-> 1, duration |-> "20 minutes",
      priority |-> 200, branch |-> "exploration", completed |-> FALSE,
      prerequisites |-> <<>>],
     [id |-> "t2", title |-> "Apply", difficulty |-> 3, duration |-> "45 minutes",
      priority |-> 220, branch |-> "application", completed |-> FALSE,
      prerequisites |-> <<>>],
     [id |-> "t3", title |-> "Master", difficulty |-> 4, duration |-> "2 hours",
      branch |-> "mastery", completed |-> FALSE],
     [id |-> "t4", title |-> "Review", difficulty |-> 2, duration |-> "45 min",
      priority |-> 210, branch |-> "exploration", completed |-> FALSE]}

PackerFrontiers ==
    UNION {{l \in [1..n -> PackerTasks] : \A i, j \in 1..n : l[i] = l[j] => i = j} :
              n \in 0..MaxPool}

PackerPools == {getReadyTasks([frontierNodes |-> l]) : l \in PackerFrontiers}

PackerWakes == {0, 420}
PackerSleeps == {480, 1320}
PackerMeals == {<<>>, <<480, 720, 1080>>}
PackerEnergies == {2, 3, 4}
PackerPreferences ==
    {[wake_time |-> "7:00 AM"],
     [focus_duration |-> "25 min pomodoro", break_preferences |-> "5 min"],
     [focus_duration |-> "1 hour blocks"],
     [focus_duration |-> "2 hours", break_preferences |-> "5 min"]}
PackerPriorityHours == {Unresolvable, <<>>, <<9, 14>>}

loopState ==
    [blocks |-> blocks, currentTime |-> currentTime, readyTasks |-> readyTasks,
     blockId |-> blockId, pc |-> pkPc]

setLoopState(st) ==
    /\ blocks' = st.blocks
    /\ currentTime' = st.currentTime
    /\ readyTasks' = st.readyTasks
    /\ blockId' = st.blockId
    /\ pkPc' = st.pc

PackerCall ==
    /\ pkPc = "idle"
    /\ \E w \in PackerWakes, sl \in PackerSleeps, m \in PackerMeals,
          pool \in PackerPools, e \in PackerEnergies,
          pref \in PackerPreferences, ph \in PackerPriorityHours :
          LET in == [wakeTime |-> w, sleepTime |-> sl, mealTimes |-> m,
                     readyTasks |-> pool, energyLevel |-> e, focusType |-> "mixed",
                     preferences |-> pref, priorityHours |-> ph]
          IN pkIn' = in /\ setLoopState(loopStart(in))
    /\ UNCHANGED <<resolverVars, systemVars>>

Iteration(kind) ==
    /\ pkPc = "loop"
    /\ currentTime < pkIn.sleepTime
    /\ iterationKind(pkIn, loopState) = kind
    /\ setLoopState(iterate(pkIn, loopState))
    /\ UNCHANGED <<pkIn, resolverVars, systemVars>>

IterationThrows == Iteration("throw")
IterationMeal == Iteration("meal")
IterationLearning == Iteration("learning")
IterationHabit == Iteration("habit")

PackerReturn ==
    /\ pkPc = "loop"
    /\ ~(currentTime < pkIn.sleepTime)
    /\ pkPc' = "returned"
    /\ UNCHANGED <<pkIn, blocks, currentTime, readyTasks, blockId,
                   resolverVars, systemVars>>

InitPacker == IdleResolver /\ IdlePacker /\ IdleSystem

NextPacker ==
    \/ PackerCall
    \/ IterationThrows
    \/ IterationMeal
    \/ IterationLearning
    \/ IterationHabit
    \/ PackerReturn

SpecPacker == InitPacker /\ [][NextPacker]_vars

startOf(b) == parseTime(b.startTime)

learningBlocks == SelectSeq(blocks, LAMBDA b : b.type = "learning")

\* C7: in the block list the packer returns, every block starts at or after
\* the end of the block before it, and start times never decrease.
C7_NoOverlap ==
    pkPc = "returned" =>
        \A i \in 1..(Len(blocks) - 1) :
            /\ startOf(blocks[i]) + blocks[i].duration <= startOf(blocks[i + 1])
            /\ startOf(blocks[i]) <= startOf(blocks[i + 1])

\* a returned day with a meal, a learning block and its break in sequence
C7_Witness ==
    /\ pkPc = "returned"
    /\ \E i \in 1..(Len(blocks) - 2) :
          /\ blocks[i].type = "meal"
          /\ blocks[i + 1].type = "learning"
          /\ blocks[i + 2].type = "break"
          /\ startOf(blocks[i + 1]) = startOf(blocks[i]) + 45

C9_NoTaskTwice ==
    \A i, j \in 1..Len(learningBlocks) :
        learningBlocks[i].taskId = learningBlocks[j].taskId => i = j

\* every task of a two-task pool was placed, each once
C9_Witness ==
    /\ pkPc = "returned"
    /\ Len(pkIn.readyTasks) = 2
    /\ Len(learningBlocks) = 2
    /\ readyTasks = <<>>
    /\ {b.taskId : b \in Range(learningBlocks)} = {t.id : t \in Range(pkIn.readyTasks)}

\* C11: every meal block starts within 15 minutes of a configured meal time
\* and lasts exactly 45 minutes, and no learning or habit block starts at a
\* cursor inside a meal window (the meal branch is tested first).
C11_MealBlocksInWindow ==
    \A i \in 1..Len(blocks) :
        /\ blocks[i].type = "meal" =>
              /\ isMealTime(startOf(blocks[i]), pkIn.mealTimes)
              /\ blocks[i].duration = 45
        /\ blocks[i].type \in {"learning", "habit"} =>
              ~isMealTime(startOf(blocks[i]), pkIn.mealTimes)

\* a meal block placed while tasks were waiting: a learning block follows it
C11_Witness ==
    /\ pkPc = "returned"
    /\ \E i, j \in 1..Len(blocks) :
          /\ i < j
          /\ blocks[i].type = "meal"
          /\ blocks[i].duration = 45
          /\ Abs(startOf(blocks[i]) - 720) <= 15
          /\ blocks[j].type = "learning"

-----------------------------------------------------------------------------
(* Tool handlers over the stored documents *)

ProjectId == "p1"
Today == "2026-01-05"

\* ProjectManagement.requireActiveProject: the project id, or threw
requireActiveProject ==
    IF globalConfig = Null \/ configDoc = Null THEN [threw |-> TRUE]
    ELSE [threw |-> FALSE, id |-> globalConfig.activeProject]

\* config.activePath || "general"
activePathOf(config) == TextOr(config, "activePath", "general")

\* ProjectManagement.createProject
CreateProject(goal, preferences) ==
    /\ configDoc' = [id |-> ProjectId, goal |-> goal,
                     learning_paths |-> <<[path_name |-> "general"]>>,
                     life_structure_preferences |-> preferences,
                     knowledge_level |-> 1, activePath |-> "general"]
    /\ globalConfig' = [projects |-> <<ProjectId>>, activeProject |-> ProjectId]
    /\ result' = [op |-> "createProject", ok |-> TRUE]
    /\ UNCHANGED <<htaDoc, dayDoc, claude, historyDoc, clock, hostPriorityHours,
                   resolverVars, packerVars>>

\* the words the heuristic provider extracts from goal and path
keywordsOf(goal, pathName) ==
    Range(split(toLowerCase(goal) \o " " \o toLowerCase(pathName), " "))

\* claudeInterface.requestIntelligence("branch-design")
branchDesign(goal, pathName) ==
    LET keywords == keywordsOf(goal, pathName)
        branch(id, title, priority) ==
            [id |-> id, title |-> title, priority |-> priority, completed |-> FALSE]
    IN (IF "crisis" \in keywords \/ "emergency" \in keywords
        THEN <<branch("crisis", "Crisis Prevention", "critical")>> ELSE <<>>)
       \o (IF "relationship" \in keywords \/ "sydney" \in keywords
           THEN <<branch("relationship", "Relationship Repair", "high")>> ELSE <<>>)
       \o (IF "system" \in keywords \/ "daily" \in keywords
           THEN <<branch("daily", "Daily Systems", "high")>> ELSE <<>>)
       \o <<branch("exploration", "Domain Exploration", "medium"),
            branch("mastery", "Advanced Mastery", "low")>>

\* claudeInterface.requestIntelligence("branch-node-generation")
branchNodeGeneration(branch, startNodeId) ==
    LET titles == <<"Understand the fundamentals of " \o branch.title,
                    "Apply " \o branch.title \o " in real-life scenario",
                    "Reflect on progress in " \o branch.title>>
    IN [k \in 1..3 |->
           [id |-> branch.id \o "_" \o ToString(startNodeId + k - 1),
            title |-> titles[k], description |-> titles[k],
            branch |-> branch.id, difficulty |-> k,
            duration |-> ToString(15 + (k - 1) * 15) \o " minutes",
            prerequisites |-> IF k = 1 THEN <<>>
                              ELSE <<branch.id \o "_" \o ToString(startNodeId + k - 2)>>,
            completed |-> FALSE, priority |-> 200 - (k - 1) * 10]]

\* HtaTreeBuilder.generateStrategicBranches
generateStrategicBranches(goal, pathName) ==
    IF claude = "heuristic" THEN branchDesign(goal, pathName)
    ELSE <<[id |-> "exploration", title |-> "Domain Exploration",
            priority |-> "high", completed |-> FALSE],
           [id |-> "fundamentals", title |-> "Core Fundamentals",
            priority |-> "high", completed |-> FALSE],
           [id |-> "application", title |-> "Practical Application",
            priority |-> "medium", completed |-> FALSE],
           [id |-> "mastery", title |-> "Advanced Mastery",
            priority |-> "low", completed |-> FALSE]>>

\* HtaTreeBuilder.generateBranchNodes
generateBranchNodes(branch, startNodeId) ==
    IF claude = "heuristic" THEN branchNodeGeneration(branch, startNodeId)
    ELSE <<[id |-> branch.id \o "_" \o ToString(startNodeId),
            title |-> "Explore: " \o branch.title,
            description |-> "Explore the core concepts of " \o branch.title,
            branch |-> branch.id, difficulty |-> 1, duration |-> "20 minutes",
            prerequisites |-> <<>>, completed |-> FALSE, priority |-> 200]>>

\* HtaTreeBuilder.sortNodesBySequence: priority descending, then distance of
\* the difficulty from the ideal one ascending (distances are below 100)
sortNodesBySequence(frontierNodes, knowledgeLevel) ==
    LET idealDifficulty == Min(knowledgeLevel + 1, 4)
    IN SortDesc(frontierNodes,
           [i \in 1..Len(frontierNodes) |->
               frontierNodes[i].priority * 100
               - Abs(frontierNodes[i].difficulty - idealDifficulty)])

\* HtaTreeBuilder.generateSequencedFrontierNodes
RECURSIVE branchNodesFrom(_, _, _)
branchNodesFrom(branches, k, nodeId) ==
    IF k > Len(branches) THEN <<>>
    ELSE LET branchNodes == generateBranchNodes(branches[k], nodeId)
         IN branchNodes \o branchNodesFrom(branches, k + 1, nodeId + Len(branchNodes))

generateSequencedFrontierNodes(strategicBranches, knowledgeLevel) ==
    sortNodesBySequence(branchNodesFrom(strategicBranches, 1, 1), knowledgeLevel)

\* HtaTreeBuilder.buildHTATree for the active path
BuildHTATree ==
    /\ IF requireActiveProject.threw
       THEN /\ result' = [op |-> "buildHTATree", ok |-> FALSE]
            /\ UNCHANGED <<htaDoc, configDoc>>
       ELSE LET targetPath == activePathOf(configDoc)
                knowledgeLevel == NumOr(configDoc, "knowledge_level", 1)
                strategicBranches == generateStrategicBranches(configDoc.goal, targetPath)
                htaData == [pathName |-> targetPath, goal |-> configDoc.goal,
                            strategicBranches |-> strategicBranches,
                            frontierNodes |-> generateSequencedFrontierNodes(
                                                  strategicBranches, knowledgeLevel)]
            IN /\ htaDoc' = htaData
               /\ configDoc' = [configDoc EXCEPT !.activePath = targetPath]
               /\ result' = [op |-> "buildHTATree", ok |-> TRUE]
    /\ UNCHANGED <<globalConfig, dayDoc, claude, historyDoc, clock,
                   hostPriorityHours, resolverVars, packerVars>>

\* ScheduleGenerator.loadPathHTA for the general path: the project-level
\* document, or {}
loadPathHTA == IF htaDoc = Null THEN EmptyDoc ELSE htaDoc

\* parseInt of text: the leading digits after trimming, Null for NaN
RECURSIVE trimStart(_)
trimStart(s) ==
    IF Len(s) > 0 /\ CharAt(s, 1) = " " THEN trimStart(SubSeq(s, 2, Len(s))) ELSE s

parseIntPrefix(s) ==
    LET t == trimStart(s)
        j == digitRunEnd(t, 1)
    IN IF j < 1 THEN Null ELSE [value |-> parseInt(SubSeq(t, 1, j))]

\* the priorityHours that generateComprehensiveSchedule parses (lines 116-129)
parsePriorityHours(availableHours) ==
    IF availableHours = Null THEN <<>>
    ELSE IF availableHours.kind = "number" THEN <<availableHours.value>>
    ELSE LET parts == split(availableHours.value, ",")
             parsed == [i \in 1..Len(parts) |-> parseIntPrefix(parts[i])]
             kept == SelectSeq(parsed, LAMBDA n : n # Null)
         IN [i \in 1..Len(kept) |-> kept[i].value]

\* the object generateComprehensiveSchedule returns once createTimeBlocks has
\* returned (lines 144-154); Null when createTimeBlocks threw
scheduleObject(config, date, energyLevel, focusType, preferences, packed) ==
    IF packed.pc = "threw" THEN Null
    ELSE [date |-> date, projectId |-> ProjectId,
          activePath |-> activePathOf(config), energyLevel |-> energyLevel,
          focusType |-> focusType, preferences |-> preferences,
          blocks |-> packed.blocks]

\* the arguments generateComprehensiveSchedule hands to createTimeBlocks
\* (lines 99-113 and 132-142): the ninth argument is availableHours, which
\* createTimeBlocks never reads, so priorityHours is the global binding
packerArguments(preferences, energyLevel, focusType) ==
    [wakeTime |-> parseTime(TextOr(preferences, "wake_time", "7:00 AM")),
     sleepTime |-> parseTime(TextOr(preferences, "sleep_time", "10:00 PM")),
     mealTimes |-> parseMealTimes(IF Has(preferences, "meal_times")
                                  THEN preferences.meal_times
                                  ELSE <<"8:00 AM", "12:00 PM", "6:00 PM">>),
     readyTasks |-> getReadyTasks(loadPathHTA),
     energyLevel |-> energyLevel, focusType |-> focusType,
     preferences |-> preferences,
     priorityHours |-> hostPriorityHours]

\* config.life_structure_preferences || {}
preferencesOf(config) ==
    IF Has(config, "life_structure_preferences")
    THEN config.life_structure_preferences
    ELSE EmptyDoc

\* ScheduleGenerator.generateComprehensiveSchedule: the schedule, or Null
\* when createTimeBlocks throws
generateComprehensiveSchedule(config, date, energyLevel, availableHours, focusType) ==
    scheduleObject(config, date, energyLevel, focusType, preferencesOf(config),
        createTimeBlocks(packerArguments(preferencesOf(config), energyLevel, focusType)))

\* what generateDailySchedule does with the outcome of
\* generateComprehensiveSchedule (lines 48-86)
saveAndReturn(schedule, args) ==
    IF schedule = Null
    THEN /\ result' = [op |-> "generateDailySchedule", ok |-> FALSE,
                       error |-> "priorityHours is not defined", args |-> args]
         /\ UNCHANGED dayDoc
    ELSE /\ dayDoc' = schedule
         /\ result' = [op |-> "generateDailySchedule", ok |-> TRUE,
                       daily_schedule |-> schedule, date |-> Today,
                       args |-> args]

\* the call's arguments, with the filter generateComprehensiveSchedule parses
callArguments(energyLevel, availableHours, focusType) ==
    [energyLevel |-> energyLevel, availableHours |-> availableHours,
     focusType |-> focusType,
     priorityHours |-> parsePriorityHours(availableHours)]

\* ScheduleGenerator.generateDailySchedule
GenerateDailySchedule(energyLevel, availableHours, focusType) ==
    /\ IF requireActiveProject.threw
       THEN /\ result' = [op |-> "generateDailySchedule", ok |-> FALSE,
                          error |-> "No active project",
                          args |-> callArguments(energyLevel, availableHours, focusType)]
            /\ UNCHANGED dayDoc
       ELSE saveAndReturn(
                generateComprehensiveSchedule(configDoc, Today, energyLevel,
                                              availableHours, focusType),
                callArguments(energyLevel, availableHours, focusType))
    /\ UNCHANGED <<globalConfig, configDoc, htaDoc, claude, historyDoc, clock,
                   hostPriorityHours, resolverVars, packerVars>>

\* claudeInterface.requestIntelligence("next-task-selection")
nextTaskSelection ==
    [id |-> "rec_now", title |-> "Emergency Brain Dump",
     description |-> "Externalize urgent thoughts to regain focus",
     difficulty |-> 2, duration |-> "20 minutes", branch |-> "crisis",
     priority |-> 300, generated |-> TRUE]

\* TaskIntelligence.getNextTask
GetNextTask(contextFromMemory, energyLevel, timeAvailable) ==
    /\ result' = [op |-> "getNextTask",
                  args |-> [contextFromMemory |-> contextFromMemory,
                            energyLevel |-> energyLevel,
                            timeAvailable |-> timeAvailable],
                  selected_task |-> IF claude = "heuristic" THEN nextTaskSelection
                                    ELSE Null]
    /\ UNCHANGED <<globalConfig, configDoc, htaDoc, dayDoc, claude, historyDoc,
                   clock, hostPriorityHours, resolverVars, packerVars>>

-----------------------------------------------------------------------------
(* Completion processor: TaskCompletion.completeBlock and what it calls *)

\* Object.assign(doc, upd): the keys of upd set on doc
Merge(doc, upd) ==
    [k \in DOMAIN doc \cup DOMAIN upd |-> IF k \in DOMAIN upd THEN upd[k] ELSE doc[k]]

\* String.prototype.trim
RECURSIVE trimEnd(_)
trimEnd(s) ==
    IF Len(s) > 0 /\ CharAt(s, Len(s)) = " "
    THEN trimEnd(SubSeq(s, 1, Len(s) - 1)) ELSE s

trim(s) == trimEnd(trimStart(s))

\* truthiness of a text field that may be absent
Text(doc, key) == Has(doc, key) /\ doc[key] # ""

\* mutant of findBlock: the first block stands in for a block that is absent
findBlock_FirstWhenAbsent(schedule, id) ==
    LET list == ListOr(schedule, "blocks")
    IN IF \E i \in 1..Len(list) : list[i].id = id
       THEN CHOOSE i \in 1..Len(list) :
                list[i].id = id /\ \A j \in 1..(i - 1) : list[j].id # id
       ELSE IF Len(list) > 0 THEN 1 ELSE 0

\* schedule.blocks?.find((b) => b.id === blockId): the position of the first
\* block with that id, 0 when there is none or the schedule has no blocks
findBlock(schedule, id) ==
    LET list == ListOr(schedule, "blocks")
    IN IF \E i \in 1..Len(list) : list[i].id = id
       THEN CHOOSE i \in 1..Len(list) :
                list[i].id = id /\ \A j \in 1..(i - 1) : list[j].id # id
       ELSE 0

\* the condition of line 64 under which completeBlock attaches the context
attachesOpportunityContext(a) ==
    a.engagementLevel # 5 \/ Len(a.unexpectedResults) > 0

\* mutant of completedBlock: the completion's fields are copied but the
\* completed flag is left as it was
completedBlock_FlagUnset(block, a, now) ==
    Merge(block,
        [completedAt |-> now, outcome |-> a.outcome, learned |-> a.learned,
         nextQuestions |-> a.nextQuestions, energyAfter |-> a.energyLevel,
         difficultyRating |-> a.difficultyRating, breakthrough |-> a.breakthrough])

\* the block after lines 53-75 of completeBlock
completedBlock(block, a, now) ==
    LET marked == Merge(block,
                     [completed |-> TRUE, completedAt |-> now,
                      outcome |-> a.outcome, learned |-> a.learned,
                      nextQuestions |-> a.nextQuestions,
                      energyAfter |-> a.energyLevel,
                      difficultyRating |-> a.difficultyRating,
                      breakthrough |-> a.breakthrough])
    IN IF attachesOpportunityContext(a)
       THEN Merge(marked,
                [opportunityContext |->
                    [engagementLevel |-> a.engagementLevel,
                     unexpectedResults |-> a.unexpectedResults,
                     newSkillsRevealed |-> a.newSkillsRevealed,
                     externalFeedback |-> a.externalFeedback,
                     socialReactions |-> a.socialReactions,
                     viralPotential |-> a.viralPotential,
                     industryConnections |-> a.industryConnections,
                     serendipitousEvents |-> a.serendipitousEvents]])
       ELSE marked

\* nextQuestions.split(".").filter((q) => q.trim().length > 0)
questionsOf(block) ==
    IF Text(block, "nextQuestions")
    THEN SelectSeq(split(block.nextQuestions, "."), LAMBDA q : Len(trim(q)) > 0)
    ELSE <<>>

\* mutant of insightsOf: an insight for every block that learned something
insightsOf_WheneverLearned(block) ==
    IF Text(block, "learned")
    THEN <<[insight |-> block.learned, topic |-> block.title,
            timestamp |-> block.completedAt, context |-> block.outcome]>>
    ELSE <<>>

\* the records updateLearningHistory pushes to insights (lines 163-171)
insightsOf(block) ==
    IF block.breakthrough /\ Text(block, "learned")
    THEN <<[insight |-> block.learned, topic |-> block.title,
            timestamp |-> block.completedAt, context |-> block.outcome]>>
    ELSE <<>>

\* the records updateLearningHistory pushes to knowledgeGaps (lines 173-186)
knowledgeGapsOf(block) ==
    LET questions == questionsOf(block)
    IN [i \in 1..Len(questions) |->
           [question |-> trim(questions[i]), relatedTopic |-> block.title,
            identified |-> block.completedAt,
            priority |-> IF block.breakthrough THEN "high" ELSE "medium"]]

\* mutant of skillProgressionAfter: the level is derived from the count
\* before the increment
skillProgressionAfter_StaleLevel(skillProgression, block) ==
    IF ~Text(block, "branch") THEN skillProgression
    ELSE LET before == IF Has(skillProgression, block.branch)
                       THEN skillProgression[block.branch]
                       ELSE [level |-> 1, completedTasks |-> 0, totalEngagement |-> 0]
             after == [completedTasks |-> before.completedTasks + 1,
                       totalEngagement |-> before.totalEngagement + 5,
                       level |-> Min(10, 1 + (before.completedTasks \div 3))]
         IN Merge(skillProgression, [b \in {block.branch} |-> after])

\* the skill progression after lines 188-206
skillProgressionAfter(skillProgression, block) ==
    IF ~Text(block, "branch") THEN skillProgression
    ELSE LET before == IF Has(skillProgression, block.branch)
                       THEN skillProgression[block.branch]
                       ELSE [level |-> 1, completedTasks |-> 0, totalEngagement |-> 0]
             engagement == IF Has(block, "opportunityContext")
                           THEN NumOr(block.opportunityContext, "engagementLevel", 5)
                           ELSE 5
             after == [completedTasks |-> before.completedTasks + 1,
                       totalEngagement |-> before.totalEngagement + engagement,
                       level |-> Min(10, 1 + ((before.completedTasks + 1) \div 3))]
         IN Merge(skillProgression, [b \in {block.branch} |-> after])

\* DataPersistence.loadProjectData applied to the stored document: a
\* document whose embedded id or project_id names another project raises the
\* integrity violation inside the try block, whose catch logs it and returns
\* null, like a missing file
loadProjectData(doc) ==
    IF doc = Null THEN Null
    ELSE IF (Text(doc, "id") /\ doc.id # ProjectId)
            \/ (Text(doc, "project_id") /\ doc.project_id # ProjectId)
    THEN Null
    ELSE doc

\* TaskCompletion.loadPathLearningHistory for the general path, || the empty
\* history of lines 142-147
loadPathLearningHistory ==
    IF loadProjectData(historyDoc) = Null
    THEN [completedTopics |-> <<>>, insights |-> <<>>, knowledgeGaps |-> <<>>,
          skillProgression |-> EmptyDoc]
    ELSE historyDoc

\* mutant of updateLearningHistory: the record is added to the history as
\* stored at the time of the save, not to the copy loaded earlier
updateLearningHistory_OnStored(learningHistory, block) ==
    [completedTopics |->
         Append(loadPathLearningHistory.completedTopics,
             [topic |-> block.title,
              description |-> TextOr(block, "description", ""),
              completedAt |-> block.completedAt, outcome |-> block.outcome,
              learned |-> block.learned, difficulty |-> block.difficultyRating,
              energyAfter |-> block.energyAfter,
              breakthrough |-> block.breakthrough, blockId |-> block.id,
              taskId |-> IF Has(block, "taskId") THEN block.taskId ELSE Null]),
     insights |-> loadPathLearningHistory.insights \o insightsOf(block),
     knowledgeGaps |-> loadPathLearningHistory.knowledgeGaps \o knowledgeGapsOf(block),
     skillProgression |->
         skillProgressionAfter(loadPathLearningHistory.skillProgression, block)]

\* TaskCompletion.updateLearningHistory: the document it saves
updateLearningHistory(learningHistory, block) ==
    [completedTopics |->
         Append(learningHistory.completedTopics,
             [topic |-> block.title,
              description |-> TextOr(block, "description", ""),
              completedAt |-> block.completedAt, outcome |-> block.outcome,
              learned |-> block.learned, difficulty |-> block.difficultyRating,
              energyAfter |-> block.energyAfter,
              breakthrough |-> block.breakthrough, blockId |-> block.id,
              taskId |-> IF Has(block, "taskId") THEN block.taskId ELSE Null]),
     insights |-> learningHistory.insights \o insightsOf(block),
     knowledgeGaps |-> learningHistory.knowledgeGaps \o knowledgeGapsOf(block),
     skillProgression |-> skillProgressionAfter(learningHistory.skillProgression, block)]

\* [block.taskId].filter(Boolean)
taskIdList(block) == IF Text(block, "taskId") THEN <<block.taskId>> ELSE <<>>

\* lines 215-224: the first frontier node whose id is the block's task id is
\* marked completed
markNodeCompleted(htaData, block) ==
    LET list == ListOr(htaData, "frontierNodes")
    IN IF Text(block, "taskId") /\ \E i \in 1..Len(list) : list[i].id = block.taskId
       THEN LET k == CHOOSE i \in 1..Len(list) :
                        list[i].id = block.taskId
                        /\ \A j \in 1..(i - 1) : list[j].id # block.taskId
            IN Merge(htaData,
                   [frontierNodes |->
                       [list EXCEPT ![k] =
                           Merge(list[k],
                               [completed |-> TRUE,
                                completedAt |-> block.completedAt,
                                actualDifficulty |-> block.difficultyRating,
                                actualDuration |-> block.duration])]])
       ELSE htaData

\* mutant of generateFollowUpTasks: every question yields a task, without
\* the slice(0, 2) of line 258
generateFollowUpTasks_Uncapped(block, htaData) ==
    [i \in 1..Len(questionsOf(block)) |->
        [id |-> "followup_" \o ToString(Len(ListOr(htaData, "frontierNodes")) + 999 + i),
         title |-> "Explore: " \o trim(questionsOf(block)[i]),
         description |-> "Investigation stemming from " \o block.title,
         branch |-> TextOr(block, "branch", "exploration"),
         difficulty |-> Max(1, NumOr(block, "difficultyRating", 3) - 1),
         duration |-> "20 minutes",
         prerequisites |-> taskIdList(block),
         learningOutcome |-> "Understanding of " \o trim(questionsOf(block)[i]),
         priority |-> IF block.breakthrough THEN 250 ELSE 200,
         generated |-> TRUE,
         sourceBlock |-> block.id]]

\* TaskCompletion.generateFollowUpTasks
generateFollowUpTasks(block, htaData) ==
    LET taskId == Len(ListOr(htaData, "frontierNodes")) + 1000
        questions == questionsOf(block)
    IN [i \in 1..Min(2, Len(questions)) |->
           [id |-> "followup_" \o ToString(taskId + i - 1),
            title |-> "Explore: " \o trim(questions[i]),
            description |-> "Investigation stemming from " \o block.title,
            branch |-> TextOr(block, "branch", "exploration"),
            difficulty |-> Max(1, NumOr(block, "difficultyRating", 3) - 1),
            duration |-> "20 minutes",
            prerequisites |-> taskIdList(block),
            learningOutcome |-> "Understanding of " \o trim(questions[i]),
            priority |-> IF block.breakthrough THEN 250 ELSE 200,
            generated |-> TRUE,
            sourceBlock |-> block.id]]

\* mutant of amplificationTasks: the threshold is above 8, not from 8
amplificationTasks_Above8(block, context, taskId) ==
    IF context.engagementLevel > 8
    THEN <<[id |-> "breakthrough_" \o ToString(taskId),
            title |-> "Amplify: " \o block.title \o " Success",
            description |-> "Build on the breakthrough momentum from " \o block.title,
            branch |-> TextOr(block, "branch", "opportunity"),
            difficulty |-> Min(5, NumOr(block, "difficultyRating", 3) + 1),
            duration |-> "45 minutes",
            prerequisites |-> taskIdList(block),
            learningOutcome |-> "Amplified skills and deeper mastery",
            priority |-> 350,
            opportunityType |-> "breakthrough_amplification"]>>
    ELSE <<>>

\* the node of lines 285-298, when the engagement level calls for it
amplificationTasks(block, context, taskId) ==
    IF context.engagementLevel >= 8
    THEN <<[id |-> "breakthrough_" \o ToString(taskId),
            title |-> "Amplify: " \o block.title \o " Success",
            description |-> "Build on the breakthrough momentum from " \o block.title,
            branch |-> TextOr(block, "branch", "opportunity"),
            difficulty |-> Min(5, NumOr(block, "difficultyRating", 3) + 1),
            duration |-> "45 minutes",
            prerequisites |-> taskIdList(block),
            learningOutcome |-> "Amplified skills and deeper mastery",
            priority |-> 350,
            opportunityType |-> "breakthrough_amplification"]>>
    ELSE <<>>

\* the node of lines 300-318, when some external feedback is positive
networkingTasks(block, context, taskId) ==
    IF \E i \in 1..Len(context.externalFeedback) :
           Has(context.externalFeedback[i], "sentiment")
           /\ context.externalFeedback[i].sentiment = "positive"
    THEN <<[id |-> "network_" \o ToString(taskId),
            title |-> "Follow Up: External Interest",
            description |-> "Connect with people who showed interest in your "
                            \o block.title \o " work",
            branch |-> "networking", difficulty |-> 2,
            duration |-> "30 minutes",
            learningOutcome |-> "Professional connections and feedback",
            priority |-> 300, opportunityType |-> "networking"]>>
    ELSE <<>>

\* the node of lines 320-333, when the viral flag is set
viralTasks(block, context, taskId) ==
    IF context.viralPotential
    THEN <<[id |-> "viral_" \o ToString(taskId),
            title |-> "Leverage: Viral Momentum",
            description |-> "Capitalize on the viral potential of your "
                            \o block.title \o " work",
            branch |-> "marketing", difficulty |-> 3,
            duration |-> "60 minutes",
            learningOutcome |-> "Understanding of viral content and audience building",
            priority |-> 320, opportunityType |-> "viral_leverage"]>>
    ELSE <<>>

\* the three pushes of generateOpportunityTasks in order, taskId++ after each
opportunityTasksFrom(block, context, taskId) ==
    LET first == amplificationTasks(block, context, taskId)
        second == networkingTasks(block, context, taskId + Len(first))
    IN first \o second
       \o viralTasks(block, context, taskId + Len(first) + Len(second))

\* TaskCompletion.generateOpportunityTasks
generateOpportunityTasks(block, htaData) ==
    opportunityTasksFrom(block, block.opportunityContext,
                         Len(ListOr(htaData, "frontierNodes")) + 2000)

\* htaData.frontierNodes = (htaData.frontierNodes || []).concat(newTasks),
\* guarded by newTasks.length > 0
concatFrontier(htaData, newTasks) ==
    IF Len(newTasks) > 0
    THEN Merge(htaData, [frontierNodes |-> ListOr(htaData, "frontierNodes") \o newTasks])
    ELSE htaData

\* lines 226-232
withFollowUpTasks(htaData, block) ==
    IF Text(block, "nextQuestions") \/ block.breakthrough
    THEN concatFrontier(htaData, generateFollowUpTasks(block, htaData))
    ELSE htaData

\* lines 234-242
withOpportunityTasks(htaData, block) ==
    IF Has(block, "opportunityContext")
    THEN concatFrontier(htaData, generateOpportunityTasks(block, htaData))
    ELSE htaData

\* TaskCompletion.evolveHTABasedOnLearning: the document it saves; nothing is
\* saved when no graph document exists
evolveHTABasedOnLearning(htaData, block, now) ==
    IF htaData = Null THEN Null
    ELSE Merge(withOpportunityTasks(
                   withFollowUpTasks(markNodeCompleted(htaData, block), block),
                   block),
               [lastUpdated |-> now])

\* evolveHTABasedOnLearning throws: with a graph loaded and an opportunity
\* context attached, the filter of lines 302-304 reads f.sentiment of every
\* external feedback entry, a TypeError on a null entry
evolveThrows(htaData, block) ==
    /\ htaData # Null
    /\ Has(block, "opportunityContext")
    /\ \E f \in Range(block.opportunityContext.externalFeedback) : f = Null

\* handleOpportunityDetection throws: the filter of lines 369-371 reads
\* f.sentiment of every external feedback entry of the attached context
detectionThrows(block) ==
    /\ Has(block, "opportunityContext")
    /\ \E f \in Range(block.opportunityContext.externalFeedback) : f = Null

\* mutant of evolvesHTA: an attached opportunity context evolves the graph too
evolvesHTA_OnContext(block) ==
    \/ block.learned # "" \/ block.nextQuestions # "" \/ block.breakthrough
    \/ Has(block, "opportunityContext")

\* the test of line 92
evolvesHTA(block) ==
    block.learned # "" \/ block.nextQuestions # "" \/ block.breakthrough

\* what completeBlock writes and returns once the block is found
\* (lines 77-135): a throw of the graph step or of the opportunity detection
\* reaches the catch of line 122 after the day and the history were saved
saveCompletion(schedule, k, block, args) ==
    /\ dayDoc' = [schedule EXCEPT !.blocks[k] = block]
    /\ historyDoc' = updateLearningHistory(loadPathLearningHistory, block)
    /\ htaDoc' = IF evolvesHTA(block) /\ ~evolveThrows(htaDoc, block)
                 THEN evolveHTABasedOnLearning(htaDoc, block, block.completedAt)
                 ELSE htaDoc
    /\ result' = IF (evolvesHTA(block) /\ evolveThrows(htaDoc, block))
                    \/ detectionThrows(block)
                 THEN [op |-> "completeBlock", ok |-> FALSE, args |-> args]
                 ELSE [op |-> "completeBlock", ok |-> TRUE, args |-> args,
                       block_completed |-> block]

\* TaskCompletion.completeBlock
CompleteBlock(id, a) ==
    /\ IF requireActiveProject.threw
          \/ findBlock(IF dayDoc = Null THEN EmptyDoc ELSE dayDoc, id) = 0
       THEN /\ result' = [op |-> "completeBlock", ok |-> FALSE,
                          args |-> [blockId |-> id, completion |-> a]]
            /\ UNCHANGED <<dayDoc, historyDoc, htaDoc>>
       ELSE /\ Len(loadPathLearningHistory.completedTopics) < MaxCompletions
            /\ saveCompletion(dayDoc, findBlock(dayDoc, id),
                   completedBlock(dayDoc.blocks[findBlock(dayDoc, id)], a, clock),
                   [blockId |-> id, completion |-> a])
    /\ UNCHANGED <<globalConfig, configDoc, claude, clock, hostPriorityHours,
                   resolverVars, packerVars>>

-----------------------------------------------------------------------------
(* Evolution engine: TaskIntelligence.evolveStrategy and what it calls *)

SevenDays == 7 * 24 * 60 * 60 * 1000

\* the completions of the last seven days (lines 832-838)
recentCompletions(learningHistory, now) ==
    SelectSeq(ListOr(learningHistory, "completedTopics"),
              LAMBDA t : now - t.completedAt <= SevenDays)

RECURSIVE sumEnergyAfter(_)
sumEnergyAfter(completions) ==
    IF completions = <<>> THEN 0
    ELSE NumOr(Head(completions), "energyAfter", 3) + sumEnergyAfter(Tail(completions))

\* mutant of detectStuckIndicators: no engagement is measured when there is
\* no recent completion
detectStuckIndicators_EmptyIsNeutral(htaData, learningHistory, now) ==
    LET recent == recentCompletions(learningHistory, now)
    IN (IF getAvailableTasksCount(htaData) = 0 THEN <<"no_available_tasks">> ELSE <<>>)
       \o (IF Len(recent) = 0 THEN <<"no_recent_progress">> ELSE <<>>)
       \o (IF Len(recent) > 0 /\ 2 * sumEnergyAfter(recent) < 5 * Len(recent)
           THEN <<"low_engagement">> ELSE <<>>)

\* TaskIntelligence.detectStuckIndicators; the average of line 845 is below
\* 2.5 exactly when twice the sum is below five times the divisor
detectStuckIndicators(htaData, learningHistory, now) ==
    LET recent == recentCompletions(learningHistory, now)
    IN (IF getAvailableTasksCount(htaData) = 0 THEN <<"no_available_tasks">> ELSE <<>>)
       \o (IF Len(recent) = 0 THEN <<"no_recent_progress">> ELSE <<>>)
       \o (IF 2 * sumEnergyAfter(recent) < 5 * Max(Len(recent), 1)
           THEN <<"low_engagement">> ELSE <<>>)

\* mutant of analyzeFeedback: "stuck" is missing from the negative keywords
analyzeFeedback_WithoutStuck(feedback) ==
    IF feedback = "" THEN [sentiment |-> "neutral"]
    ELSE LET feedbackLower == toLowerCase(feedback)
         IN [sentiment |->
                IF includes(feedbackLower, "boring") \/ includes(feedbackLower, "difficult")
                THEN "negative"
                ELSE IF includes(feedbackLower, "great")
                        \/ includes(feedbackLower, "interesting")
                        \/ includes(feedbackLower, "progress")
                THEN "positive"
                ELSE "neutral",
             original |-> feedback]

\* TaskIntelligence.analyzeFeedback
analyzeFeedback(feedback) ==
    IF feedback = "" THEN [sentiment |-> "neutral"]
    ELSE LET feedbackLower == toLowerCase(feedback)
         IN [sentiment |->
                IF includes(feedbackLower, "boring") \/ includes(feedbackLower, "stuck")
                   \/ includes(feedbackLower, "difficult")
                THEN "negative"
                ELSE IF includes(feedbackLower, "great")
                        \/ includes(feedbackLower, "interesting")
                        \/ includes(feedbackLower, "progress")
                THEN "positive"
                ELSE "neutral",
             original |-> feedback]

\* mutant of determineEvolutionStrategy: the user's concerns are addressed
\* before the stuck indicators are looked at
determineEvolutionStrategy_FeedbackFirst(analysis) ==
    IF analysis.userFeedback.sentiment = "negative" THEN "address_user_concerns"
    ELSE IF "no_available_tasks" \in Range(analysis.stuckIndicators)
    THEN "generate_new_tasks"
    ELSE IF "low_engagement" \in Range(analysis.stuckIndicators)
    THEN "increase_variety_and_interest"
    ELSE IF analysis.availableTasks < 3 THEN "expand_task_frontier"
    ELSE "optimize_existing_sequence"

\* TaskIntelligence.determineEvolutionStrategy
determineEvolutionStrategy(analysis) ==
    IF "no_available_tasks" \in Range(analysis.stuckIndicators)
    THEN "generate_new_tasks"
    ELSE IF "low_engagement" \in Range(analysis.stuckIndicators)
    THEN "increase_variety_and_interest"
    ELSE IF analysis.userFeedback.sentiment = "negative" THEN "address_user_concerns"
    ELSE IF analysis.availableTasks < 3 THEN "expand_task_frontier"
    ELSE "optimize_existing_sequence"

\* the analysis of lines 789-797, before the recommendation is filled in
strategyFacts(htaData, learningHistory, feedback, now) ==
    [completedTasks |-> Len(SelectSeq(ListOr(htaData, "frontier_nodes"),
                                      LAMBDA n : Flag(n, "completed"))),
     totalTasks |-> Len(ListOr(htaData, "frontier_nodes")),
     availableTasks |-> getAvailableTasksCount(htaData),
     stuckIndicators |-> detectStuckIndicators(htaData, learningHistory, now),
     userFeedback |-> analyzeFeedback(feedback)]

\* TaskIntelligence.analyzeCurrentStrategy
analyzeCurrentStrategy(htaData, learningHistory, feedback, now) ==
    Merge(strategyFacts(htaData, learningHistory, feedback, now),
          [recommendedEvolution |->
              determineEvolutionStrategy(
                  strategyFacts(htaData, learningHistory, feedback, now))])

\* claudeInterface.requestIntelligence("task-generation")
taskGeneration(config, analysis, now) ==
    <<[id |-> "task_" \o ToString(now),
       title |-> "Deep-dive: " \o split(TextOr(config, "goal", "General Growth"), " ")[1]
                 \o " fundamentals",
       description |-> "Investigate the foundational principles behind your goal: "
                       \o TextOr(config, "goal", "General Growth"),
       difficulty |-> 3, duration |-> "45 minutes", branch |-> "fundamentals",
       priority |-> 220, generated |-> TRUE],
      [id |-> "task_" \o ToString(now + 1),
       title |-> "Apply new insight to real crisis context",
       description |-> "Translate theory into practice based on current analysis ("
                       \o analysis.recommendedEvolution \o ").",
       difficulty |-> 4, duration |-> "30 minutes", branch |-> "application",
       priority |-> 210, generated |-> TRUE]>>

\* the provider's answer to the task-generation request of lines 910-916: the
\* heuristic interface answers with a task list, another provider may throw
\* or answer with an envelope that carries no list
taskGenerationResponse(config, analysis, now) ==
    CASE claude = "heuristic" ->
             [threw |-> FALSE, response |-> [tasks |-> taskGeneration(config, analysis, now)]]
      [] claude = "unhelpful" ->
             [threw |-> FALSE,
              response |-> [request_for_claude |-> [type |-> "task-generation"]]]
      [] OTHER -> [threw |-> TRUE]

\* lines 929-951: the minimal generic fallback structure
fallbackTasks(now) ==
    <<[id |-> "explore_fallback_" \o ToString(now),
       title |-> "Explore: New Possibility",
       description |-> "Discover new aspects of your learning domain",
       difficulty |-> 1, duration |-> "20 minutes", branch |-> "exploration",
       priority |-> 230, generated |-> TRUE],
      [id |-> "practice_fallback_" \o ToString(now + 1),
       title |-> "Practice: Core Skill",
       description |-> "Reinforce fundamental skills",
       difficulty |-> 3, duration |-> "30 minutes", branch |-> "practice",
       priority |-> 220, generated |-> TRUE]>>

\* lines 917-922 applied to an answer: its task list, if it carries one
tasksOfResponse(answer) ==
    IF ~answer.threw /\ Has(answer.response, "tasks") THEN answer.response.tasks
    ELSE Null

\* mutant of generateSmartNextTasks: a provider that fails or answers without
\* a list leaves the caller with no tasks
generateSmartNextTasks_NoFallback(config, analysis, now) ==
    IF claude = "absent" THEN fallbackTasks(now)
    ELSE IF tasksOfResponse(taskGenerationResponse(config, analysis, now)) # Null
    THEN tasksOfResponse(taskGenerationResponse(config, analysis, now))
    ELSE <<>>

\* TaskIntelligence.generateSmartNextTasks: the provider's tasks, or the
\* fallback pair when there is no provider, its call throws or its answer
\* carries no task list
generateSmartNextTasks(config, analysis, now) ==
    IF claude # "absent"
       /\ tasksOfResponse(taskGenerationResponse(config, analysis, now)) # Null
    THEN tasksOfResponse(taskGenerationResponse(config, analysis, now))
    ELSE fallbackTasks(now)

\* lines 661-669: the graph document evolveStrategy saves
withNewTasks(htaData, newTasks, now) ==
    IF Len(newTasks) > 0
    THEN Merge(htaData,
             [frontier_nodes |-> ListOr(htaData, "frontier_nodes") \o newTasks,
              last_evolution |-> now])
    ELSE htaData

\* what evolveStrategy writes and returns for the analysis it made
evolveWith(analysis, feedback, now) ==
    /\ htaDoc' = withNewTasks(loadPathHTA,
                     generateSmartNextTasks(configDoc, analysis, now), now)
    /\ result' = [op |-> "evolveStrategy", ok |-> TRUE,
                  args |-> [feedback |-> feedback],
                  strategy_analysis |-> analysis,
                  new_tasks |-> generateSmartNextTasks(configDoc, analysis, now)]

\* TaskIntelligence.evolveStrategy, called elapsed milliseconds after the
\* clock was last read; the readings of Date.now() within one call are equal
EvolveStrategy(feedback, elapsed) ==
    /\ clock + elapsed <= MaxClock
    /\ clock' = clock + elapsed
    /\ IF requireActiveProject.threw
       THEN /\ result' = [op |-> "evolveStrategy", ok |-> FALSE,
                          args |-> [feedback |-> feedback]]
            /\ UNCHANGED htaDoc
       ELSE /\ Len(ListOr(loadPathHTA, "frontier_nodes")) < 2 * MaxEvolutions
            /\ evolveWith(analyzeCurrentStrategy(loadPathHTA,
                              IF loadProjectData(historyDoc) = Null THEN EmptyDoc
                              ELSE historyDoc,
                              feedback, clock + elapsed),
                          feedback, clock + elapsed)
    /\ UNCHANGED <<globalConfig, configDoc, dayDoc, claude, historyDoc,
                   hostPriorityHours, resolverVars, packerVars>>

-----------------------------------------------------------------------------
(* Specification Spec: the server's tool calls in any order.  The provider  *)
(* is fixed at construction: the heuristic interface of CoreInfrastructure, *)
(* none (the constructors' default), or an interface whose calls throw.     *)

Providers == {"absent", "heuristic", "throws"}
Goals == {"Learn piano", "Build daily system"}
Preferences ==
    {[wake_time |-> "7:00 AM", sleep_time |-> "10:00 PM",
      meal_times |-> <<"12:00 PM">>],
     [focus_duration |-> "25 minutes"],
     [wake_time |-> "10:00 PM", sleep_time |-> "7:00 AM"]}
Energies == {2, 4}
AvailableHours ==
    {Null, [kind |-> "number", value |-> 9], [kind |-> "string", value |-> "7, 14,x"]}

Init ==
    /\ IdleResolver /\ IdlePacker
    /\ globalConfig = Null /\ configDoc = Null /\ htaDoc = Null /\ dayDoc = Null
    /\ result = Null
    /\ historyDoc = Null /\ clock = 0
    /\ hostPriorityHours = globalPriorityHours
    /\ claude \in Providers

DoCreateProject == \E g \in Goals, pref \in Preferences : CreateProject(g, pref)

DoGenerateDailySchedule ==
    \E e \in Energies, h \in AvailableHours : GenerateDailySchedule(e, h, "mixed")

DoGetNextTask ==
    \E e \in Energies, c \in SelectorContexts : GetNextTask(c, e, "30 minutes")

Next ==
    \/ DoCreateProject
    \/ BuildHTATree
    \/ DoGenerateDailySchedule
    \/ DoGetNextTask

Spec == Init /\ [][Next]_vars

\* the nodes of the active path's graph, under either key the modules use
graphNodes ==
    IF htaDoc = Null THEN <<>>
    ELSE ListOr(htaDoc, "frontierNodes") \o ListOr(htaDoc, "frontier_nodes")

\* C4: without a working provider getNextTask returns the highest-scoring
\* ready node of the active path's graph, and a null task only when no node
\* is ready.
C4_FallbackSelectsBestReady ==
    (result # Null /\ result.op = "getNextTask" /\ claude \in {"absent", "throws"}) =>
        LET best == selectOptimalTask([frontier_nodes |-> graphNodes],
                        result.args.energyLevel, result.args.timeAvailable,
                        result.args.contextFromMemory)
        IN IF best = Null THEN result.selected_task = Null
           ELSE result.selected_task = best.task

\* C6: with an active project and its config document, generateDailySchedule
\* does not end in an error: it returns the block list with date, energy
\* level and focus type, and the day document holds that schedule.
C6_ScheduleGeneratedAndSaved ==
    (result # Null /\ result.op = "generateDailySchedule"
     /\ ~requireActiveProject.threw) =>
        /\ result.ok
        /\ result.date = Today
        /\ result.daily_schedule.energyLevel = result.args.energyLevel
        /\ result.daily_schedule.focusType = result.args.focusType
        /\ Has(result.daily_schedule, "blocks")
        /\ dayDoc = result.daily_schedule

\* C10: a learning block is placed only at an hour of the priority-hours
\* filter parsed from availableHours when that filter is non-empty; with an
\* empty filter the packer places one wherever a task remains and no meal
\* window applies, so the day of a project with ready tasks opens with a
\* learning block when wake time is outside every meal window.
C10_LearningOnlyInPriorityHours ==
    (result # Null /\ result.op = "generateDailySchedule"
     /\ ~requireActiveProject.threw) =>
        LET filter == result.args.priorityHours
            preferences == configDoc.life_structure_preferences
            wakeTime == parseTime(TextOr(preferences, "wake_time", "7:00 AM"))
            sleepTime == parseTime(TextOr(preferences, "sleep_time", "10:00 PM"))
            mealTimes == parseMealTimes(IF Has(preferences, "meal_times")
                                        THEN preferences.meal_times
                                        ELSE <<"8:00 AM", "12:00 PM", "6:00 PM">>)
        IN /\ (result.ok /\ filter # <<>>) =>
                 \A b \in Range(result.daily_schedule.blocks) :
                     b.type = "learning" =>
                         floorDiv(startOf(b), 60) \in Range(filter)
           /\ (filter = <<>> /\ wakeTime < sleepTime
               /\ ~isMealTime(wakeTime, mealTimes)
               /\ getReadyTasks(loadPathHTA) # <<>>) =>
                 /\ result.ok
                 /\ result.daily_schedule.blocks # <<>>
                 /\ result.daily_schedule.blocks[1].type = "learning"

-----------------------------------------------------------------------------
(* Specification SpecLifecycle: a project is created, its tree built, days   *)
(* scheduled, blocks completed and the strategy evolved, in any order, while *)
(* the clock advances.  The packer's free identifier priorityHours is either *)
(* unbound, as in the server as shipped, or bound by the host to the empty   *)
(* filter; only under the second can a stored day hold blocks to complete.   *)

LifecycleGoals == {"Learn piano"}
LifecyclePreferences ==
    {[wake_time |-> "9:00 AM", sleep_time |-> "9:20 AM"]}
LifecycleBindings == {globalPriorityHours, <<>>}
LifecycleProviders == {"absent", "heuristic"}

\* the arguments of the complete_block tool
plainCompletion ==
    [outcome |-> "done", learned |-> "", nextQuestions |-> "", energyLevel |-> 3,
     difficultyRating |-> 3, breakthrough |-> FALSE, engagementLevel |-> 5,
     unexpectedResults |-> <<>>, newSkillsRevealed |-> <<>>,
     externalFeedback |-> <<>>, socialReactions |-> <<>>,
     viralPotential |-> FALSE, industryConnections |-> <<>>,
     serendipitousEvents |-> <<>>]

Completions ==
    {plainCompletion,
     [plainCompletion EXCEPT !.learned = "scales", !.breakthrough = TRUE,
                             !.nextQuestions = "Why thirds. How fast"],
     [plainCompletion EXCEPT !.learned = "chords", !.engagementLevel = 9],
     [plainCompletion EXCEPT !.learned = "rhythm",
                             !.newSkillsRevealed = <<"sight reading">>]}

Feedbacks == {"This is boring"}

\* the ids a caller may pass: those of the stored day, and one of no block
knownBlockIds ==
    IF dayDoc = Null THEN {}
    ELSE {b.id : b \in Range(ListOr(dayDoc, "blocks"))}

InitLifecycle ==
    /\ IdleResolver /\ IdlePacker
    /\ globalConfig = Null /\ configDoc = Null /\ htaDoc = Null /\ dayDoc = Null
    /\ result = Null /\ historyDoc = Null /\ clock = 0
    /\ hostPriorityHours \in LifecycleBindings
    /\ claude \in LifecycleProviders

LifecycleCreateProject ==
    \E g \in LifecycleGoals, pref \in LifecyclePreferences : CreateProject(g, pref)

LifecycleGenerateDailySchedule == GenerateDailySchedule(3, Null, "mixed")

LifecycleCompleteBlock ==
    \/ \E id \in knownBlockIds, a \in Completions : CompleteBlock(id, a)
    \/ CompleteBlock("task_404", plainCompletion)

LifecycleEvolveStrategy ==
    \E f \in Feedbacks, elapsed \in {0, 1} : EvolveStrategy(f, elapsed)

NextLifecycle ==
    \/ LifecycleCreateProject
    \/ BuildHTATree
    \/ LifecycleGenerateDailySchedule
    \/ LifecycleCompleteBlock
    \/ LifecycleEvolveStrategy

SpecLifecycle == InitLifecycle /\ [][NextLifecycle]_vars

\* Specification SpecCompletion: the same server without strategy evolution,
\* the calls that lead to and make up a completion
NextCompletion ==
    \/ LifecycleCreateProject
    \/ BuildHTATree
    \/ LifecycleGenerateDailySchedule
    \/ LifecycleCompleteBlock

SpecCompletion == InitLifecycle /\ [][NextCompletion]_vars

\* C12: completeBlock with a block id that is not in today's schedule, or
\* with no day schedule, returns an error and leaves the day document, the
\* learning history and the task graph as they were.
C12_UnknownBlockChangesNothing ==
    [][(result' # Null /\ result'.op = "completeBlock"
        /\ result'.args.blockId \notin knownBlockIds)
       => (~result'.ok /\ UNCHANGED <<dayDoc, historyDoc, htaDoc>>)]_vars

C12_Witness ==
    /\ result # Null /\ result.op = "completeBlock" /\ ~result.ok
    /\ result.args.blockId = "task_404"
    /\ dayDoc # Null /\ Len(dayDoc.blocks) > 0
    /\ historyDoc # Null /\ htaDoc # Null

\* C13: a successful completeBlock with breakthrough = true and a non-empty
\* learned text appends at least one insight record to the learning history,
\* and a completion whose breakthrough is false appends none.  Only
\* completeBlock writes the learning history, so a step that changes it is a
\* successful completion.
C13_InsightIffBreakthrough ==
    [][historyDoc' # historyDoc =>
          LET a == result'.args.completion
              before == loadPathLearningHistory.insights
              after == historyDoc'.insights
          IN /\ result'.op = "completeBlock" /\ result'.ok
             /\ Len(after) >= Len(before)
             /\ SubSeq(after, 1, Len(before)) = before
             /\ (a.breakthrough /\ a.learned # "") => Len(after) >= Len(before) + 1
             /\ ~a.breakthrough => after = before]_vars

C13_Witness ==
    /\ result # Null /\ result.op = "completeBlock" /\ result.ok
    /\ result.args.completion.breakthrough
    /\ result.args.completion.learned = "scales"
    /\ \E i \in 1..Len(historyDoc.insights) :
          historyDoc.insights[i].insight = "scales"
    /\ \E i \in 1..Len(historyDoc.completedTopics) :
          /\ ~historyDoc.completedTopics[i].breakthrough
          /\ historyDoc.completedTopics[i].learned # ""

followUpNodes(doc) ==
    IF doc = Null THEN <<>>
    ELSE SelectSeq(ListOr(doc, "frontierNodes"), LAMBDA n : Has(n, "sourceBlock"))

\* the ids of the nodes in some ready set computed from the graph document:
\* the schedule generator's, the status report's and the task selector's
readyIds(doc) ==
    IF doc = Null THEN {}
    ELSE {n.id : n \in Range(getReadyTasks(doc))
                      \cup Range(getReadyNodes(ListOr(doc, "frontierNodes")))
                      \cup Range(availableTasks(doc))}

\* C16: a node appended by follow-up generation, once marked completed, is
\* in no ready set of any later state: every state keeps its completed
\* follow-up nodes out of every ready set, and a completeBlock or
\* evolveStrategy call leaves each of them in the graph, still completed.
C16_CompletedFollowUpStaysOut ==
    [][/\ \A m \in Range(followUpNodes(htaDoc')) :
              Flag(m, "completed") => m.id \notin readyIds(htaDoc')
       /\ (result' # Null /\ result'.op \in {"completeBlock", "evolveStrategy"}) =>
              \A n \in Range(followUpNodes(htaDoc)) :
                  Flag(n, "completed") =>
                      \E m \in Range(followUpNodes(htaDoc')) :
                          m.id = n.id /\ Flag(m, "completed")]_vars

C16_Witness ==
    /\ result # Null /\ result.op = "evolveStrategy" /\ result.ok
    /\ \E n \in Range(followUpNodes(htaDoc)) : Flag(n, "completed")
    /\ \E n \in Range(followUpNodes(htaDoc)) :
          ~Flag(n, "completed") /\ n.id \in readyIds(htaDoc)

\* C17: no operation deletes a node: every node of the path's graph before
\* a step of buildTree, completeBlock or evolveStrategy is in the graph
\* after it.
C17_NoNodeDeleted ==
    [][\A n \in Range(graphNodes) : \E m \in Range(graphNodes') : m.id = n.id]_vars

\* C18: node identifiers are unique within a path: no two nodes of the
\* graph have the same id.
C18_NodeIdsUnique ==
    \A i, j \in 1..Len(graphNodes) : i # j => graphNodes[i].id # graphNodes[j].id

\* C19: after evolveStrategy has produced new tasks, each new task without
\* prerequisites is in the ready set the schedule generator computes from
\* the stored graph, and the graph's last-evolution timestamp is the time of
\* the call.
C19_NewTasksReachTheFrontier ==
    (result # Null /\ result.op = "evolveStrategy" /\ result.ok
     /\ result.new_tasks # <<>>) =>
        /\ \A t \in Range(result.new_tasks) :
              noPrereqs(t) =>
                  t.id \in {n.id : n \in Range(getReadyTasks(loadPathHTA))}
        /\ Has(htaDoc, "last_evolution")
        /\ htaDoc.last_evolution = clock

-----------------------------------------------------------------------------
(* Specification SpecOpportunity: generateOpportunityTasks applied to        *)
(* completed blocks over frontiers of at most MaxNodes nodes.                *)

OpportunityFrontier == {[id |-> "a", title |-> "A", completed |-> FALSE]}
OpportunityEngagements == {1, 5, 7, 8, 9, 10}
OpportunityFeedbacks ==
    {<<>>, <<[sentiment |-> "negative"]>>, <<[sentiment |-> "positive"]>>,
     <<[sentiment |-> "negative"], [sentiment |-> "positive"]>>,
     <<[source |-> "mentor"]>>}
OpportunityRatings == {1, 3, 5}

\* a learning block of the day, completed with the given signals
OpportunityBlocks ==
    {completedBlock(
         learningBlock([id |-> "a", title |-> "A", priority |-> 200],
                       540, 25, 1),
         [plainCompletion EXCEPT !.engagementLevel = e,
                                 !.externalFeedback = f,
                                 !.viralPotential = v,
                                 !.difficultyRating = d,
                                 !.unexpectedResults = <<"an invitation">>],
         0) :
        e \in OpportunityEngagements, f \in OpportunityFeedbacks,
        v \in BOOLEAN, d \in OpportunityRatings}

AddOpportunityNode == AddNode(OpportunityFrontier, MaxNodes)

CallGenerateOpportunityTasks ==
    /\ call = NoCall
    /\ \E block \in OpportunityBlocks :
          call' = [fn |-> "generateOpportunityTasks", block |-> block,
                   out |-> generateOpportunityTasks(block, [frontierNodes |-> nodes])]
    /\ UNCHANGED <<nodes, packerVars, systemVars>>

InitOpportunity == IdleResolver /\ IdlePacker /\ IdleSystem

NextOpportunity ==
    \/ AddOpportunityNode
    \/ CallGenerateOpportunityTasks

SpecOpportunity == InitOpportunity /\ [][NextOpportunity]_vars

\* the generated nodes of one opportunity type
tasksOfType(out, type) == SelectSeq(out, LAMBDA t : t.opportunityType = type)

\* C15: opportunity generation yields one breakthrough_amplification node
\* (priority 350) iff the engagement level is at least 8, one networking
\* node (priority 300) iff some external feedback is positive, one
\* viral_leverage node (priority 320) iff the viral flag is set, and nothing
\* else; with engagement 9, no positive feedback and no viral flag it yields
\* exactly one node, the amplification node.
C15_OpportunityNodes ==
    call.fn = "generateOpportunityTasks" =>
        LET context == call.block.opportunityContext
            positive == \E i \in 1..Len(context.externalFeedback) :
                            /\ Has(context.externalFeedback[i], "sentiment")
                            /\ context.externalFeedback[i].sentiment = "positive"
            amplify == tasksOfType(call.out, "breakthrough_amplification")
            network == tasksOfType(call.out, "networking")
            viral == tasksOfType(call.out, "viral_leverage")
        IN /\ Len(amplify) = (IF context.engagementLevel >= 8 THEN 1 ELSE 0)
           /\ Len(network) = (IF positive THEN 1 ELSE 0)
           /\ Len(viral) = (IF context.viralPotential THEN 1 ELSE 0)
           /\ Len(call.out) = Len(amplify) + Len(network) + Len(viral)
           /\ \A t \in Range(amplify) : t.priority = 350
           /\ \A t \in Range(network) : t.priority = 300
           /\ \A t \in Range(viral) : t.priority = 320
           /\ (context.engagementLevel = 9 /\ ~positive /\ ~context.viralPotential) =>
                 /\ Len(call.out) = 1
                 /\ call.out[1].opportunityType = "breakthrough_amplification"
                 /\ call.out[1].priority = 350

C15_Witness ==
    /\ call.fn = "generateOpportunityTasks"
    /\ call.block.opportunityContext.engagementLevel = 9
    /\ call.block.opportunityContext.externalFeedback = <<[sentiment |-> "negative"]>>
    /\ ~call.block.opportunityContext.viralPotential
    /\ Len(call.out) = 1
    /\ call.out[1].opportunityType = "breakthrough_amplification"
    /\ call.out[1].id = "breakthrough_2001"

-----------------------------------------------------------------------------
(* Specification SpecEvolution: analyzeCurrentStrategy applied to every      *)
(* graph of at most MaxNodes nodes, stored under the key evolveStrategy      *)
(* writes or the key buildHTATree writes, with learning histories and        *)
(* feedback texts of every sentiment.                                        *)

\* the clock reading of the analysis: eight days after time 0
EvolutionNow == 8 * 24 * 60 * 60 * 1000

EvolutionKeys == {"frontier_nodes", "frontierNodes"}

\* a completed topic as updateLearningHistory records it
topicAt(completedAt, energyAfter) ==
    [topic |-> "A", completedAt |-> completedAt, energyAfter |-> energyAfter]

EvolutionHistories ==
    {EmptyDoc,
     [completedTopics |-> <<>>],
     [completedTopics |-> <<topicAt(EvolutionNow, 1)>>],
     [completedTopics |-> <<topicAt(EvolutionNow, 5)>>],
     [completedTopics |-> <<topicAt(0, 5)>>],
     [completedTopics |-> <<topicAt(EvolutionNow, 1), topicAt(EvolutionNow, 4)>>]}

EvolutionFeedbacks ==
    {"", "This is boring", "Great progress", "STUCK but interesting", "fine"}

CallAnalyzeCurrentStrategy ==
    /\ call = NoCall
    /\ \E key \in EvolutionKeys, learningHistory \in EvolutionHistories,
          feedback \in EvolutionFeedbacks :
          call' = [fn |-> "analyzeCurrentStrategy", key |-> key,
                   learningHistory |-> learningHistory, feedback |-> feedback,
                   out |-> analyzeCurrentStrategy([k \in {key} |-> nodes],
                               learningHistory, feedback, EvolutionNow)]
    /\ UNCHANGED <<nodes, packerVars, systemVars>>

InitEvolution == IdleResolver /\ IdlePacker /\ IdleSystem

NextEvolution ==
    \/ AddResolverNode
    \/ CallAnalyzeCurrentStrategy

SpecEvolution == InitEvolution /\ [][NextEvolution]_vars

\* C20: whenever the analysed graph has no ready node, the recommended
\* evolution is generate_new_tasks, whatever the feedback's sentiment and
\* whatever the learning history.
C20_NoReadyNodesGenerateNewTasks ==
    (call.fn = "analyzeCurrentStrategy" /\ getReadyNodes(nodes) = <<>>) =>
        call.out.recommendedEvolution = "generate_new_tasks"

C20_Witness ==
    /\ call.fn = "analyzeCurrentStrategy"
    /\ call.key = "frontier_nodes"
    /\ Len(nodes) = 2 /\ getReadyNodes(nodes) = <<>>
    /\ \E i \in 1..2 : ~nodes[i].completed
    /\ call.out.userFeedback.sentiment = "negative"
    /\ "low_engagement" \in Range(call.out.stuckIndicators)
    /\ call.out.recommendedEvolution = "generate_new_tasks"

-----------------------------------------------------------------------------
(* Specification SpecStrategy: analyzeCurrentStrategy applied to graphs of   *)
(* at most MaxStrategyNodes nodes with distinct ids, so that three and more  *)
(* nodes can be ready at once, with the learning histories of SpecEvolution  *)
(* and feedback texts that do or do not voice a concern.                     *)

StrategyNodes(k) ==
    {[id |-> "n" \o ToString(k), title |-> "N" \o ToString(k), completed |-> c,
      prerequisites |-> p] : c \in BOOLEAN, p \in {<<>>, <<"n1">>}}

AddStrategyNode ==
    /\ Len(nodes) < MaxStrategyNodes
    /\ \E n \in StrategyNodes(Len(nodes) + 1) : nodes' = Append(nodes, n)
    /\ call' = NoCall
    /\ UNCHANGED <<packerVars, systemVars>>

\* the feedback texts that contain "boring" or "stuck"
ConcernFeedbacks ==
    {"this is so boring and I feel stuck", "I am stuck", "Boring"}

StrategyFeedbacks == ConcernFeedbacks \cup {"", "Great progress"}

CallStrategyAnalysis ==
    /\ call = NoCall
    /\ \E key \in EvolutionKeys, learningHistory \in EvolutionHistories,
          feedback \in StrategyFeedbacks :
          call' = [fn |-> "analyzeCurrentStrategy", key |-> key,
                   learningHistory |-> learningHistory, feedback |-> feedback,
                   out |-> analyzeCurrentStrategy([k \in {key} |-> nodes],
                               learningHistory, feedback, EvolutionNow)]
    /\ UNCHANGED <<nodes, packerVars, systemVars>>

InitStrategy == IdleResolver /\ IdlePacker /\ IdleSystem

NextStrategy ==
    \/ AddStrategyNode
    \/ CallStrategyAnalysis

SpecStrategy == InitStrategy /\ [][NextStrategy]_vars

\* C21 as stated: a feedback text containing "boring" or "stuck" is classified
\* negative, and with negative sentiment and at least 3 available tasks the
\* recommended evolution is address_user_concerns.
C21_ConcernIsAddressed ==
    (call.fn = "analyzeCurrentStrategy" /\ call.feedback \in ConcernFeedbacks) =>
        /\ call.out.userFeedback.sentiment = "negative"
        /\ call.out.availableTasks >= 3 =>
               call.out.recommendedEvolution = "address_user_concerns"

\* C21 amended: a feedback text containing "boring" or "stuck" is classified
\* negative, and with negative sentiment, at least 3 available tasks and no
\* low_engagement indicator the recommended evolution is
\* address_user_concerns; with the indicator it is
\* increase_variety_and_interest.
C21_ConcernIsAddressedUnlessLowEngagement ==
    (call.fn = "analyzeCurrentStrategy" /\ call.feedback \in ConcernFeedbacks) =>
        /\ call.out.userFeedback.sentiment = "negative"
        /\ call.out.availableTasks >= 3 =>
               call.out.recommendedEvolution =
                   IF "low_engagement" \in Range(call.out.stuckIndicators)
                   THEN "increase_variety_and_interest"
                   ELSE "address_user_concerns"

C21_Witness ==
    /\ call.fn = "analyzeCurrentStrategy"
    /\ call.feedback = "this is so boring and I feel stuck"
    /\ Len(getReadyNodes(nodes)) = 3
    /\ call.out.availableTasks = 3
    /\ call.learningHistory = [completedTopics |-> <<topicAt(EvolutionNow, 5)>>]
    /\ call.out.userFeedback.sentiment = "negative"
    /\ call.out.recommendedEvolution = "address_user_concerns"

-----------------------------------------------------------------------------
(* Specification SpecFallback: a project is created, its tree built and its  *)
(* strategy evolved under every kind of provider: none, one whose calls      *)
(* throw, one that answers without a task list, and the heuristic interface. *)

FallbackProviders == {"absent", "throws", "unhelpful", "heuristic"}

FallbackFeedbacks == {"", "This is boring"}

InitFallback ==
    /\ IdleResolver /\ IdlePacker
    /\ globalConfig = Null /\ configDoc = Null /\ htaDoc = Null /\ dayDoc = Null
    /\ result = Null /\ historyDoc = Null /\ clock = 0
    /\ hostPriorityHours = globalPriorityHours
    /\ claude \in FallbackProviders

FallbackEvolveStrategy ==
    \E f \in FallbackFeedbacks, elapsed \in {0, 1} : EvolveStrategy(f, elapsed)

NextFallback ==
    \/ LifecycleCreateProject
    \/ BuildHTATree
    \/ FallbackEvolveStrategy

SpecFallback == InitFallback /\ [][NextFallback]_vars

\* the two fixed generic tasks: exploration of difficulty 1, then practice of
\* difficulty 3
isGenericPair(tasks) ==
    /\ Len(tasks) = 2
    /\ tasks[1].branch = "exploration" /\ tasks[1].difficulty = 1
    /\ tasks[1].title = "Explore: New Possibility"
    /\ tasks[2].branch = "practice" /\ tasks[2].difficulty = 3
    /\ tasks[2].title = "Practice: Core Skill"

\* C22: with an active project and a provider that is absent, throws or
\* answers without a task list, every evolveStrategy call succeeds, returns
\* exactly the two fixed generic tasks, and leaves the stored graph equal to
\* the graph before the call followed by those two tasks.
C22_ProviderFailureFallsBack ==
    [][(/\ Has(result', "op") /\ result'.op = "evolveStrategy"
        /\ ~requireActiveProject.threw
        /\ claude \in {"absent", "throws", "unhelpful"}) =>
           /\ result'.ok
           /\ isGenericPair(result'.new_tasks)
           /\ graphNodes' = graphNodes \o result'.new_tasks]_vars

C22_Witness ==
    /\ result # Null /\ result.op = "evolveStrategy" /\ result.ok
    /\ claude = "unhelpful"
    /\ Len(ListOr(htaDoc, "frontierNodes")) > 0
    /\ Len(ListOr(htaDoc, "frontier_nodes")) = 4
    /\ isGenericPair(SubSeq(htaDoc.frontier_nodes, 3, 4))
    /\ isGenericPair(result.new_tasks)

-----------------------------------------------------------------------------
(* Specification SpecIntegrity: the completion calls of SpecCompletion over  *)
(* a store into which a learning history written for another project can be *)
(* placed (a copied or restored file); the host binds priorityHours so that  *)
(* days hold blocks.                                                         *)

ForeignHistory ==
    [project_id |-> "p2",
     completedTopics |-> <<[topic |-> "Violin", completedAt |-> 0, energyAfter |-> 4,
                            blockId |-> "task_9", breakthrough |-> FALSE]>>,
     insights |-> <<>>, knowledgeGaps |-> <<>>, skillProgression |-> EmptyDoc]

\* the file system: learning_history.json of project p2 lands in the
\* directory of project p1, which has no history yet
PlaceForeignHistory ==
    /\ historyDoc = Null
    /\ historyDoc' = ForeignHistory
    /\ UNCHANGED <<globalConfig, configDoc, htaDoc, dayDoc, claude, result, clock,
                   hostPriorityHours, resolverVars, packerVars>>

InitIntegrity ==
    /\ IdleResolver /\ IdlePacker
    /\ globalConfig = Null /\ configDoc = Null /\ htaDoc = Null /\ dayDoc = Null
    /\ result = Null /\ historyDoc = Null /\ clock = 0
    /\ hostPriorityHours = <<>>
    /\ claude \in LifecycleProviders

NextIntegrity ==
    \/ LifecycleCreateProject
    \/ BuildHTATree
    \/ LifecycleGenerateDailySchedule
    \/ LifecycleCompleteBlock
    \/ PlaceForeignHistory

SpecIntegrity == InitIntegrity /\ [][NextIntegrity]_vars

\* the stored document names another project than the one it is stored under
isForeign(doc) == doc # Null /\ Has(doc, "project_id") /\ doc.project_id # ProjectId

-----------------------------------------------------------------------------
(* Graph document resolution.  For one path the store can hold a path-scoped *)
(* document (paths/<path>/hta.json) and a project-scoped one (hta.json);     *)
(* each module has its own loader.  store is [path |-> .., project |-> ..],  *)
(* an absent file being Null.                                                *)

\* DataPersistence.loadPathData applied to the stored document
loadPathData(doc, pathName) ==
    IF doc = Null THEN Null
    ELSE IF (Text(doc, "project_id") /\ doc.project_id # ProjectId)
            \/ (Text(doc, "path_name") /\ doc.path_name # pathName)
    THEN Null
    ELSE doc

\* the loaders that read the project-scoped document for the general path
projectLevelHTA(store, pathName) ==
    IF pathName = "general" THEN loadProjectData(store.project)
    ELSE loadPathData(store.path, pathName)

\* the loaders that try the path-scoped document first
pathFirstHTA(store, pathName) ==
    IF pathName = "general"
    THEN IF loadPathData(store.path, pathName) # Null
         THEN loadPathData(store.path, pathName)
         ELSE loadProjectData(store.project)
    ELSE loadPathData(store.path, pathName)

HtaTreeBuilder_loadPathHTA(store, pathName) == projectLevelHTA(store, pathName)

ScheduleGenerator_loadPathHTA(store, pathName) ==
    IF projectLevelHTA(store, pathName) = Null THEN EmptyDoc
    ELSE projectLevelHTA(store, pathName)

TaskCompletion_loadPathHTA(store, pathName) == projectLevelHTA(store, pathName)

ReasoningEngine_loadHTA(store, pathName) == projectLevelHTA(store, pathName)

TaskIntelligence_loadPathHTA(store, pathName) == pathFirstHTA(store, pathName)

HtaStatus_loadPathHTA(store, pathName) == pathFirstHTA(store, pathName)

\* savePathHTA of HtaTreeBuilder, TaskCompletion and TaskIntelligence: the
\* file the graph is written to
savePathHTA_scope(pathName) == IF pathName = "general" THEN "project" ELSE "path"

(* Specification SpecPaths: every loader applied to every store whose two    *)
(* documents are absent or hold a prefix of a graph of at most               *)
(* MaxStrategyNodes nodes.                                                   *)

PathNames == {"general", "piano"}

StoredDocs == {Null} \cup {[frontierNodes |-> SubSeq(nodes, 1, k)] : k \in 0..Len(nodes)}

CallLoaders ==
    /\ call = NoCall
    /\ \E pathDoc \in StoredDocs, projectDoc \in StoredDocs, pathName \in PathNames :
          call' = [fn |-> "loadPathHTA", pathName |-> pathName,
                   store |-> [path |-> pathDoc, project |-> projectDoc],
                   savedTo |-> savePathHTA_scope(pathName),
                   out |-> [htaTreeBuilder |->
                                HtaTreeBuilder_loadPathHTA(
                                    [path |-> pathDoc, project |-> projectDoc], pathName),
                            scheduleGenerator |->
                                ScheduleGenerator_loadPathHTA(
                                    [path |-> pathDoc, project |-> projectDoc], pathName),
                            taskCompletion |->
                                TaskCompletion_loadPathHTA(
                                    [path |-> pathDoc, project |-> projectDoc], pathName),
                            reasoningEngine |->
                                ReasoningEngine_loadHTA(
                                    [path |-> pathDoc, project |-> projectDoc], pathName),
                            taskIntelligence |->
                                TaskIntelligence_loadPathHTA(
                                    [path |-> pathDoc, project |-> projectDoc], pathName),
                            htaStatus |->
                                HtaStatus_loadPathHTA(
                                    [path |-> pathDoc, project |-> projectDoc], pathName)]]
    /\ UNCHANGED <<nodes, packerVars, systemVars>>

InitPaths == IdleResolver /\ IdlePacker /\ IdleSystem

NextPaths ==
    \/ AddStrategyNode
    \/ CallLoaders

SpecPaths == InitPaths /\ [][NextPaths]_vars

\* a loader's result as a document: the schedule generator's {} stands for
\* no document
resolvedDoc(loaded) == IF loaded = EmptyDoc THEN Null ELSE loaded

\* C24: for the general path, whichever of the path-scoped and the
\* project-scoped document exist, every reader resolves the same document, and
\* it is the document at the place the writers save to.
C24_ReadersResolveOneDocument ==
    (call.fn = "loadPathHTA" /\ call.pathName = "general") =>
        \A reader \in DOMAIN call.out :
            resolvedDoc(call.out[reader]) = call.store[call.savedTo]

-----------------------------------------------------------------------------
(* Specification SpecConcurrent: two completeBlock calls run at once.  The   *)
(* server is single-threaded, so a call runs without interruption between    *)
(* two awaits of a load or a save; at each await the other call may run.     *)
(* call.inflight[i] holds call i's position and its local copies: schedule   *)
(* (line 42), block (48), learningHistory (139) and htaData (212).           *)

ConcurrentCompletions ==
    {[plainCompletion EXCEPT !.learned = "scales", !.nextQuestions = "Why thirds"],
     [plainCompletion EXCEPT !.learned = "chords"]}

inflightCall(id, a) ==
    [pc |-> "start", id |-> id, a |-> a, schedule |-> Null, block |-> Null,
     learningHistory |-> Null, htaData |-> Null]

\* two tool calls arrive for two different blocks of the stored day
StartCalls ==
    /\ call = NoCall
    /\ ~requireActiveProject.threw
    /\ \E id1 \in knownBlockIds, id2 \in knownBlockIds, a \in ConcurrentCompletions :
          /\ id1 # id2
          /\ call' = [fn |-> "completeBlock",
                      inflight |-> <<inflightCall(id1, a), inflightCall(id2, a)>>]
    /\ UNCHANGED <<nodes, packerVars, systemVars>>

atPc(i, pc) == call.fn = "completeBlock" /\ call.inflight[i].pc = pc

\* call i moves to position pc with the local copies of upd
advance(i, pc, upd) ==
    call' = [call EXCEPT !.inflight[i] = Merge(Merge(@, upd), [pc |-> pc])]

completionResult(c, ok) ==
    [op |-> "completeBlock", ok |-> ok,
     args |-> [blockId |-> c.id, completion |-> c.a], block_completed |-> c.block]

\* lines 100-121, or the catch of lines 122-135 when the opportunity
\* detection throws: call i ends
endCall(i) ==
    IF detectionThrows(call.inflight[i].block)
    THEN /\ advance(i, "failed", EmptyDoc)
         /\ result' = completionResult(call.inflight[i], FALSE)
    ELSE /\ advance(i, "returned", EmptyDoc)
         /\ result' = completionResult(call.inflight[i], TRUE)

\* lines 42-75: the day is loaded, the block found and marked in the copy
LoadSchedule(i) ==
    /\ atPc(i, "start")
    /\ IF findBlock(IF dayDoc = Null THEN EmptyDoc ELSE dayDoc, call.inflight[i].id) = 0
       THEN /\ advance(i, "failed", EmptyDoc)
            /\ result' = completionResult(call.inflight[i], FALSE)
       ELSE /\ advance(i, "saveSchedule",
                   [block |-> completedBlock(
                                  dayDoc.blocks[findBlock(dayDoc, call.inflight[i].id)],
                                  call.inflight[i].a, clock),
                    schedule |->
                        [dayDoc EXCEPT !.blocks[findBlock(dayDoc, call.inflight[i].id)] =
                            completedBlock(
                                dayDoc.blocks[findBlock(dayDoc, call.inflight[i].id)],
                                call.inflight[i].a, clock)]])
            /\ UNCHANGED result
    /\ UNCHANGED <<nodes, packerVars, globalConfig, configDoc, htaDoc, dayDoc, claude,
                   historyDoc, clock, hostPriorityHours>>

\* lines 78-82
SaveSchedule(i) ==
    /\ atPc(i, "saveSchedule")
    /\ dayDoc' = call.inflight[i].schedule
    /\ advance(i, "loadHistory", EmptyDoc)
    /\ UNCHANGED <<nodes, packerVars, globalConfig, configDoc, htaDoc, claude, result,
                   historyDoc, clock, hostPriorityHours>>

\* lines 139-147
LoadHistory(i) ==
    /\ atPc(i, "loadHistory")
    /\ advance(i, "saveHistory", [learningHistory |-> loadPathLearningHistory])
    /\ UNCHANGED <<nodes, packerVars, systemVars>>

\* lines 149-208, then the test of line 92
SaveHistory(i) ==
    /\ atPc(i, "saveHistory")
    /\ historyDoc' = updateLearningHistory(call.inflight[i].learningHistory,
                                           call.inflight[i].block)
    /\ IF evolvesHTA(call.inflight[i].block)
       THEN advance(i, "loadHTA", EmptyDoc) /\ UNCHANGED result
       ELSE endCall(i)
    /\ UNCHANGED <<nodes, packerVars, globalConfig, configDoc, htaDoc, dayDoc, claude,
                   clock, hostPriorityHours>>

\* lines 212-213
LoadHTA(i) ==
    /\ atPc(i, "loadHTA")
    /\ IF htaDoc = Null
       THEN endCall(i)
       ELSE advance(i, "saveHTA", [htaData |-> htaDoc]) /\ UNCHANGED result
    /\ UNCHANGED <<nodes, packerVars, globalConfig, configDoc, htaDoc, dayDoc, claude,
                   historyDoc, clock, hostPriorityHours>>

\* lines 215-245, then the return of lines 100-121, or the catch of lines
\* 122-135 when the mutation throws
SaveHTA(i) ==
    /\ atPc(i, "saveHTA")
    /\ IF evolveThrows(call.inflight[i].htaData, call.inflight[i].block)
       THEN /\ UNCHANGED htaDoc
            /\ advance(i, "graphFailed", EmptyDoc)
            /\ result' = [op |-> "completeBlock", ok |-> FALSE,
                          args |-> [blockId |-> call.inflight[i].id,
                                    completion |-> call.inflight[i].a]]
       ELSE /\ htaDoc' = evolveHTABasedOnLearning(call.inflight[i].htaData,
                                                  call.inflight[i].block,
                                                  call.inflight[i].block.completedAt)
            /\ endCall(i)
    /\ UNCHANGED <<nodes, packerVars, globalConfig, configDoc, dayDoc, claude,
                   historyDoc, clock, hostPriorityHours>>

\* the calls that set the stage run before the two completions arrive
ConcurrentSetup ==
    /\ call = NoCall
    /\ \/ LifecycleCreateProject
       \/ BuildHTATree
       \/ LifecycleGenerateDailySchedule

InitConcurrent ==
    /\ IdleResolver /\ IdlePacker
    /\ globalConfig = Null /\ configDoc = Null /\ htaDoc = Null /\ dayDoc = Null
    /\ result = Null /\ historyDoc = Null /\ clock = 0
    /\ hostPriorityHours = <<>>
    /\ claude \in LifecycleProviders

NextConcurrent ==
    \/ ConcurrentSetup
    \/ StartCalls
    \/ \E i \in 1..2 : LoadSchedule(i)
    \/ \E i \in 1..2 : SaveSchedule(i)
    \/ \E i \in 1..2 : LoadHistory(i)
    \/ \E i \in 1..2 : SaveHistory(i)
    \/ \E i \in 1..2 : LoadHTA(i)
    \/ \E i \in 1..2 : SaveHTA(i)

SpecConcurrent == InitConcurrent /\ [][NextConcurrent]_vars

bothReturned ==
    call.fn = "completeBlock" /\ \A i \in 1..2 : call.inflight[i].pc = "returned"

\* the completed-topic record of block id is in the history
recordedIn(learningHistory, id) ==
    \E t \in Range(learningHistory.completedTopics) : t.blockId = id

-----------------------------------------------------------------------------
(* Specification SpecRollback: one completeBlock call run await by await,    *)
(* with completions whose graph step throws (a null entry in the external    *)
(* feedback list) and completions whose graph step succeeds.                 *)

RollbackCompletions ==
    {plainCompletion,
     [plainCompletion EXCEPT !.learned = "scales", !.engagementLevel = 9,
                             !.externalFeedback = <<Null>>],
     [plainCompletion EXCEPT !.learned = "chords", !.engagementLevel = 9,
                             !.externalFeedback = <<[sentiment |-> "positive"]>>]}

StartCall ==
    /\ call = NoCall
    /\ ~requireActiveProject.threw
    /\ \E id \in knownBlockIds, a \in RollbackCompletions :
          call' = [fn |-> "completeBlock", inflight |-> <<inflightCall(id, a)>>]
    /\ UNCHANGED <<nodes, packerVars, systemVars>>

NextRollback ==
    \/ ConcurrentSetup
    \/ StartCall
    \/ LoadSchedule(1)
    \/ SaveSchedule(1)
    \/ LoadHistory(1)
    \/ SaveHistory(1)
    \/ LoadHTA(1)
    \/ SaveHTA(1)

SpecRollback == InitConcurrent /\ [][NextRollback]_vars

\* the block of the call in flight is marked completed in the stored day
markedInDay(c) ==
    \E b \in Range(ListOr(dayDoc, "blocks")) : b.id = c.id /\ Flag(b, "completed")

\* the stored graph differs from the copy the call loaded
graphWritten(c) == c.htaData # Null /\ htaDoc # c.htaData

\* C26: completeBlock saves the day, then the history, then the graph: the
\* history holds the call's record only once the day marks the block
\* completed, and the graph is written only once the history holds the
\* record.  When the graph step throws, the call reports an error, the
\* graph is left as loaded, and the block stays completed in the stored day
\* and its record stays in the stored history.
C26_NoRollbackAfterGraphFailure ==
    call.fn = "completeBlock" =>
        /\ (historyDoc # Null /\ recordedIn(historyDoc, call.inflight[1].id))
               => markedInDay(call.inflight[1])
        /\ graphWritten(call.inflight[1])
               => (historyDoc # Null /\ recordedIn(historyDoc, call.inflight[1].id))
        /\ call.inflight[1].pc \in {"loadHistory", "saveHistory", "loadHTA", "saveHTA",
                                     "returned", "graphFailed"}
               => markedInDay(call.inflight[1])
        /\ call.inflight[1].pc \in {"loadHTA", "saveHTA", "returned", "graphFailed"}
               => recordedIn(historyDoc, call.inflight[1].id)
        /\ call.inflight[1].pc = "graphFailed"
               => (~result.ok /\ ~graphWritten(call.inflight[1]))

C26_Witness ==
    /\ call.fn = "completeBlock"
    /\ call.inflight[1].pc = "graphFailed"
    /\ result.op = "completeBlock" /\ ~result.ok
    /\ markedInDay(call.inflight[1])
    /\ recordedIn(historyDoc, call.inflight[1].id)
    /\ htaDoc # Null /\ ~Has(htaDoc, "lastUpdated")

-----------------------------------------------------------------------------
(* Specification SpecMutation: evolveHTABasedOnLearning applied to completed *)
(* blocks, linked to a node of the graph or to none, over frontiers of at    *)
(* most MaxNodes nodes.                                                      *)

MutationFrontier ==
    {[id |-> "a", title |-> "A", completed |-> FALSE, priority |-> 200],
     [id |-> "b", title |-> "B", completed |-> FALSE, priority |-> 190,
      prerequisites |-> <<"a">>],
     [id |-> "b", title |-> "B", completed |-> TRUE, priority |-> 190,
      completedAt |-> 0, actualDifficulty |-> 2, actualDuration |-> 15]}

MutationQuestions == {"", "Why", "Why. How", "Why. How. When", " . Why. "}

MutationBlocks ==
    {completedBlock(
         learningBlock([id |-> t, title |-> "A", priority |-> 200], 540, 25, 1),
         [plainCompletion EXCEPT !.learned = "scales", !.nextQuestions = q,
                                 !.breakthrough = b, !.engagementLevel = e],
         1) :
        t \in {"a", "zz"}, q \in MutationQuestions, b \in BOOLEAN, e \in {5, 9}}

AddMutationNode == AddNode(MutationFrontier, MaxNodes)

CallEvolveHTABasedOnLearning ==
    /\ call = NoCall
    /\ \E block \in MutationBlocks :
          call' = [fn |-> "evolveHTABasedOnLearning", block |-> block,
                   out |-> evolveHTABasedOnLearning([frontierNodes |-> nodes], block, 1)]
    /\ UNCHANGED <<nodes, packerVars, systemVars>>

InitMutation == IdleResolver /\ IdlePacker /\ IdleSystem

NextMutation ==
    \/ AddMutationNode
    \/ CallEvolveHTABasedOnLearning

SpecMutation == InitMutation /\ [][NextMutation]_vars

CompletionAttributes == {"completed", "completedAt", "actualDifficulty", "actualDuration"}

\* node after is node before, up to the four completion attributes
sameButCompletion(before, after) ==
    /\ DOMAIN before \subseteq DOMAIN after
    /\ DOMAIN after \subseteq DOMAIN before \cup CompletionAttributes
    /\ \A key \in DOMAIN before \ CompletionAttributes : after[key] = before[key]

\* node after carries the completion of the block
completedBy(after, block) ==
    /\ CompletionAttributes \subseteq DOMAIN after
    /\ after.completed /\ after.completedAt = block.completedAt
    /\ after.actualDifficulty = block.difficultyRating
    /\ after.actualDuration = block.duration

\* C27: the graph mutation keeps every node of the frontier at its position
\* with its attributes, except that the first node whose id is the block's
\* task id gets completed, completedAt, actualDifficulty and actualDuration
\* from the block; what it appends holds at most 2 follow-up nodes, of
\* priority 250 if the block is a breakthrough and 200 otherwise, and
\* otherwise opportunity nodes only.
C27_MutationOnlyAppends ==
    call.fn = "evolveHTABasedOnLearning" =>
        LET after == call.out.frontierNodes
            appended == SubSeq(after, Len(nodes) + 1, Len(after))
            followUps == SelectSeq(appended, LAMBDA n : Has(n, "sourceBlock"))
            linked == {k \in 1..Len(nodes) : nodes[k].id = call.block.taskId}
        IN /\ Len(after) >= Len(nodes)
           /\ \A k \in 1..Len(nodes) :
                 IF k \in linked /\ \A j \in linked : k <= j
                 THEN sameButCompletion(nodes[k], after[k])
                      /\ completedBy(after[k], call.block)
                 ELSE after[k] = nodes[k]
           /\ Len(followUps) <= 2
           /\ \A n \in Range(followUps) :
                 n.priority = IF call.block.breakthrough THEN 250 ELSE 200
           /\ \A n \in Range(appended) :
                 Has(n, "sourceBlock") \/ Has(n, "opportunityType")

C27_Witness ==
    /\ call.fn = "evolveHTABasedOnLearning"
    /\ Len(nodes) = 2 /\ nodes[1].id = "b" /\ nodes[2].id = "a"
    /\ call.block.taskId = "a" /\ call.block.breakthrough
    /\ call.block.nextQuestions = "Why. How. When"
    /\ Len(call.out.frontierNodes) = 5
    /\ call.out.frontierNodes[1] = nodes[1]
    /\ call.out.frontierNodes[2].completed
    /\ call.out.frontierNodes[3].priority = 250
    /\ call.out.frontierNodes[4].sourceBlock = "task_1"
    /\ call.out.frontierNodes[5].opportunityType = "breakthrough_amplification"

-----------------------------------------------------------------------------
(* Repeated completions, checked under SpecCompletion *)

\* the stored day already marks block id completed
alreadyCompleted(id) ==
    /\ dayDoc # Null
    /\ \E b \in Range(ListOr(dayDoc, "blocks")) : b.id = id /\ Flag(b, "completed")

-----------------------------------------------------------------------------
(* Specification SpecProgression: updateLearningHistory applied, from no     *)
(* stored history, to completed blocks of two branches: up to                *)
(* MaxBranchCompletions blocks of branch exploration, enough to reach the    *)
(* level cap, and up to MaxOtherCompletions blocks of branch mastery, in any *)
(* order.                                                                    *)

ProgressionBlock(title, branch) ==
    completedBlock(
        learningBlock([id |-> branch \o "_1", title |-> title, branch |-> branch,
                       priority |-> 200], 540, 25, 1),
        plainCompletion, 0)

\* the completed-topic records of the blocks with this title
recordsOf(title) ==
    IF historyDoc = Null THEN <<>>
    ELSE SelectSeq(historyDoc.completedTopics, LAMBDA t : t.topic = title)

CallUpdateLearningHistory(title, branch, max) ==
    /\ Len(recordsOf(title)) < max
    /\ historyDoc' = updateLearningHistory(loadPathLearningHistory,
                                           ProgressionBlock(title, branch))
    /\ UNCHANGED <<globalConfig, configDoc, htaDoc, dayDoc, claude, result, clock,
                   hostPriorityHours, resolverVars, packerVars>>

RecordExploration ==
    CallUpdateLearningHistory("Explore", "exploration", MaxBranchCompletions)

RecordMastery ==
    CallUpdateLearningHistory("Master", "mastery", MaxOtherCompletions)

InitProgression == IdleResolver /\ IdlePacker /\ IdleSystem

NextProgression ==
    \/ RecordExploration
    \/ RecordMastery

SpecProgression == InitProgression /\ [][NextProgression]_vars

ProgressionTitles == [exploration |-> "Explore", mastery |-> "Master"]

\* C29: starting from an empty history, after any sequence of recorded
\* completions every branch's skill-progression entry has completedTasks
\* equal to the number of completions recorded for the branch and
\* level = min(10, 1 + floor(completedTasks / 3)); a branch has an entry
\* exactly when it has a completion.
C29_LevelFollowsCompletedTasks ==
    historyDoc # Null =>
        /\ DOMAIN historyDoc.skillProgression \subseteq DOMAIN ProgressionTitles
        /\ \A branch \in DOMAIN ProgressionTitles :
              IF Len(recordsOf(ProgressionTitles[branch])) = 0
              THEN branch \notin DOMAIN historyDoc.skillProgression
              ELSE /\ branch \in DOMAIN historyDoc.skillProgression
                   /\ historyDoc.skillProgression[branch].completedTasks =
                          Len(recordsOf(ProgressionTitles[branch]))
                   /\ historyDoc.skillProgression[branch].level =
                          Min(10, 1 + (Len(recordsOf(ProgressionTitles[branch])) \div 3))

C29_Witness ==
    /\ historyDoc # Null
    /\ DOMAIN historyDoc.skillProgression = {"exploration", "mastery"}
    /\ historyDoc.skillProgression["exploration"].completedTasks = 30
    /\ historyDoc.skillProgression["exploration"].level = 10
    /\ historyDoc.skillProgression["mastery"].completedTasks = 2
    /\ historyDoc.skillProgression["mastery"].level = 1

-----------------------------------------------------------------------------
(* Specification SpecTermination: the loop of createTimeBlocks run one       *)
(* iteration at a time under weak fairness of each step (the loop is         *)
(* synchronous code: it takes its next step), for pools that include a task  *)
(* of zero duration, days from midnight that reach the block cap, and a      *)
(* sleep time before the wake time.                                          *)

TerminationTasks ==
    {[id |-> "t0", title |-> "Glance", difficulty |-> 1, duration |-> "0 minutes",
      priority |-> 200, branch |-> "exploration", completed |-> FALSE],
     [id |-> "t1", title |-> "Explore", difficulty |-> 1, duration |-> "20 minutes",
      priority |-> 200, branch |-> "exploration", completed |-> FALSE],
     [id |-> "t3", title |-> "Master", difficulty |-> 4, duration |-> "2 hours",
      branch |-> "mastery", completed |-> FALSE]}

TerminationPools ==
    {getReadyTasks([frontierNodes |-> l]) :
        l \in UNION {{f \in [1..n -> TerminationTasks] :
                         \A i, j \in 1..n : f[i] = f[j] => i = j} : n \in 0..MaxPool}}

TerminationWakes == {0, 1290}
TerminationSleeps == {400, 1320}
TerminationPreferences ==
    {[wake_time |-> "7:00 AM"],
     [focus_duration |-> "2 hours", break_preferences |-> "5 min"]}

TerminationCall ==
    /\ pkPc = "idle"
    /\ \E w \in TerminationWakes, sl \in TerminationSleeps, m \in PackerMeals,
          pool \in TerminationPools, pref \in TerminationPreferences,
          ph \in PackerPriorityHours :
          /\ pkIn' = [wakeTime |-> w, sleepTime |-> sl, mealTimes |-> m,
                      readyTasks |-> pool, energyLevel |-> 3, focusType |-> "mixed",
                      preferences |-> pref, priorityHours |-> ph]
          /\ setLoopState(loopStart(
                 [wakeTime |-> w, sleepTime |-> sl, mealTimes |-> m,
                  readyTasks |-> pool, energyLevel |-> 3, focusType |-> "mixed",
                  preferences |-> pref, priorityHours |-> ph]))
    /\ UNCHANGED <<resolverVars, systemVars>>

NextTermination ==
    \/ TerminationCall
    \/ IterationThrows
    \/ IterationMeal
    \/ IterationLearning
    \/ IterationHabit
    \/ PackerReturn

\* when a learning iteration can be taken: the guard of Iteration("learning");
\* the iteration appends a block, so it changes the state whenever it can run
LearningIterationEnabled ==
    /\ pkPc = "loop"
    /\ currentTime < pkIn.sleepTime
    /\ iterationKind(pkIn, loopState) = "learning"

\* weak fairness of the learning iteration, written out over its guard
FairIterationLearning ==
    \/ []<>(~LearningIterationEnabled)
    \/ []<><<IterationLearning>>_vars

SpecTermination ==
    /\ InitPacker
    /\ [][NextTermination]_vars
    /\ WF_vars(IterationThrows)
    /\ WF_vars(IterationMeal)
    /\ WF_vars(IterationHabit)
    /\ WF_vars(PackerReturn)
    /\ FairIterationLearning

\* C30: every call of the packer loop ends, by returning or by throwing; each
\* iteration that adds blocks moves the cursor forward or takes a task out
\* of the pool; and the loop returns only with the cursor at or past the
\* sleep time or with more than 50 blocks.
C30_PackerLoopTerminates ==
    /\ [][(pkPc = "loop" /\ blocks' # blocks) =>
              (currentTime' > currentTime \/ Len(readyTasks') < Len(readyTasks))]_vars
    /\ [][(pkPc = "loop" /\ pkPc' = "returned") =>
              (currentTime' >= pkIn.sleepTime \/ Len(blocks') > 50)]_vars
    /\ (pkPc = "loop") ~> (pkPc \in {"returned", "threw"})

\* a returned day whose zero-length learning block left the cursor in place
\* while its task left the pool
C30_Witness ==
    /\ pkPc = "returned"
    /\ Len(pkIn.readyTasks) = 2
    /\ readyTasks = <<>>
    /\ \E i \in 1..(Len(blocks) - 1) :
          /\ blocks[i].type = "learning" /\ blocks[i].duration = 0
          /\ blocks[i + 1].type = "learning"
          /\ blocks[i + 1].startTime = blocks[i].startTime

-----------------------------------------------------------------------------
(* The analysis of evolveStrategy against the readiness resolver, under      *)
(* SpecLifecycle.                                                            *)

\* a graph document as buildHTATree and completeBlock write it: its nodes
\* are under frontierNodes and evolveStrategy has added no list of its own
writtenByBuildAndComplete(doc) ==
    doc # Null /\ Has(doc, "frontierNodes") /\ ~Has(doc, "frontier_nodes")

\* C31: for a graph written by buildTree and completeBlock, the analysis of
\* evolveStrategy counts as available exactly the ready nodes the schedule
\* generator computes from that graph, and reports no_available_tasks iff
\* there is none.
C31_AvailableCountAgreesWithResolver ==
    [][(LifecycleEvolveStrategy /\ writtenByBuildAndComplete(htaDoc) /\ result'.ok) =>
          /\ result'.strategy_analysis.availableTasks = Len(getReadyTasks(htaDoc))
          /\ ("no_available_tasks" \in Range(result'.strategy_analysis.stuckIndicators))
                 <=> (Len(getReadyTasks(htaDoc)) = 0)]_vars

-----------------------------------------------------------------------------
(* Specification SpecDuration: calculateTaskDuration applied to tasks with   *)
(* and without a duration text, focus preferences and energy levels 1 to 5.  *)

DurationTexts ==
    {"0 minutes", "10 minutes", "20 minutes", "45 minutes", "1 hour", "3 hours",
     "45 min", ""}
DurationTasks ==
    {[id |-> "a", title |-> "A", duration |-> d] : d \in DurationTexts}
        \cup {[id |-> "a", title |-> "A"]}
DurationPreferences ==
    {[wake_time |-> "7:00 AM"]}
        \cup {[focus_duration |-> f] :
                 f \in {"flexible", "25 minutes", "1 hour", "2 hours",
                        "2 hours 25 minutes"}}
DurationEnergies == 1..5

CallCalculateTaskDuration ==
    /\ call = NoCall
    /\ \E task \in DurationTasks, pref \in DurationPreferences,
          e \in DurationEnergies :
          call' = [fn |-> "calculateTaskDuration", task |-> task,
                   preferences |-> pref, energyLevel |-> e,
                   out |-> calculateTaskDuration(task, pref, e)]
    /\ UNCHANGED <<nodes, packerVars, systemVars>>

InitDuration == IdleResolver /\ IdlePacker /\ IdleSystem

NextDuration == CallCalculateTaskDuration

SpecDuration == InitDuration /\ [][NextDuration]_vars

\* ten times the energy multiplier
tenthsOfMultiplier(energyLevel) ==
    IF energyLevel >= 4 THEN 15 ELSE IF energyLevel <= 2 THEN 7 ELSE 10

\* C32 as stated: the duration is 25 for a focus preference that mentions
\* "25", 60 for "1 hour", 120 for "2 hour", and otherwise the base duration
\* times the energy multiplier, clamped to [15, 120].
C32_DurationIsFixedOrScaled ==
    call.fn = "calculateTaskDuration" =>
        LET focus == TextOr(call.preferences, "focus_duration", "flexible")
            base == parseDuration(durationOr(call.task))
            tenths == tenthsOfMultiplier(call.energyLevel) * base
        IN IF includes(focus, "25") THEN call.out = 25
           ELSE IF includes(focus, "1 hour") THEN call.out = 60
           ELSE IF includes(focus, "2 hour") THEN call.out = 120
           ELSE 10 * call.out = Max(150, Min(1200, tenths))

\* C32, amended: for a "2 hour" preference the duration is twice the base
\* duration, at most 120; and the scaled duration is the product rounded to
\* a whole minute (within half a minute of it) before it is clamped.
C32_DurationDoublesUnderTwoHours ==
    call.fn = "calculateTaskDuration" =>
        LET focus == TextOr(call.preferences, "focus_duration", "flexible")
            base == parseDuration(durationOr(call.task))
            tenths == tenthsOfMultiplier(call.energyLevel) * base
        IN IF includes(focus, "25") THEN call.out = 25
           ELSE IF includes(focus, "1 hour") THEN call.out = 60
           ELSE IF includes(focus, "2 hour") THEN call.out = Min(120, 2 * base)
           ELSE \E minutes \in 0..(2 * base) :
                    /\ 10 * minutes - tenths \in -5..5
                    /\ call.out = Max(15, Min(120, minutes))

\* a 20-minute task under a "2 hours" focus gets 40 minutes
C32_Witness ==
    /\ call.fn = "calculateTaskDuration"
    /\ call.preferences = [focus_duration |-> "2 hours"]
    /\ Has(call.task, "duration") /\ call.task.duration = "20 minutes"
    /\ call.out = 40

-----------------------------------------------------------------------------
(* Specification SpecHabit: generateHabitBlock applied at every minute of    *)
(* the day.                                                                  *)

MinutesPerDay == 24 * 60
HabitTimes == 0..(MinutesPerDay - 1)

CallGenerateHabitBlock ==
    /\ call = NoCall
    /\ \E time \in HabitTimes :
          call' = [fn |-> "generateHabitBlock", time |-> time,
                   out |-> generateHabitBlock(time)]
    /\ UNCHANGED <<nodes, packerVars, systemVars>>

InitHabit == IdleResolver /\ IdlePacker /\ IdleSystem

NextHabit == CallGenerateHabitBlock

SpecHabit == InitHabit /\ [][NextHabit]_vars

MorningRoutine == [title |-> "Morning Routine", duration |-> 30]
EveningWindDown == [title |-> "Evening Wind-down", duration |-> 45]
MindfulTransition == [title |-> "Mindful Transition", duration |-> 15]

\* C33 as stated: the filler block is the 30-minute morning routine before
\* 9:00, the 45-minute evening wind-down from 19:00 on, and the 15-minute
\* mindful transition at every other time, 9:00 to 9:59 included.
C33_MorningEndsBeforeNine ==
    call.fn = "generateHabitBlock" =>
        call.out = IF call.time < 9 * 60 THEN MorningRoutine
                   ELSE IF call.time >= 19 * 60 THEN EveningWindDown
                   ELSE MindfulTransition

\* C33, amended: the morning routine is the filler through hour 9, up to
\* 9:59, and the mindful transition starts with hour 10.
C33_MorningIncludesHourNine ==
    call.fn = "generateHabitBlock" =>
        call.out = IF call.time < 10 * 60 THEN MorningRoutine
                   ELSE IF call.time >= 19 * 60 THEN EveningWindDown
                   ELSE MindfulTransition

\* the filler at 9:30 is the morning routine
C33_Witness ==
    /\ call.fn = "generateHabitBlock"
    /\ call.time = 9 * 60 + 30
    /\ call.out = MorningRoutine

-----------------------------------------------------------------------------
(* Specification SpecSlot: selectTaskForTimeSlot applied to the ready pools  *)
(* getReadyTasks makes of frontiers of at most MaxPool nodes, at hours in    *)
(* and out of the morning band and energy levels 1 to 5.                     *)

SlotTasks ==
    {[id |-> "s1", title |-> "Skim", difficulty |-> 1, priority |-> 200,
      completed |-> FALSE],
     [id |-> "s2", title |-> "Drill", difficulty |-> 2, priority |-> 250,
      completed |-> FALSE],
     [id |-> "s3", title |-> "Apply", difficulty |-> 3, completed |-> FALSE],
     [id |-> "s4", title |-> "Master", difficulty |-> 4, priority |-> 300,
      completed |-> FALSE],
     [id |-> "s5", title |-> "Teach", difficulty |-> 5, priority |-> 200,
      completed |-> FALSE],
     [id |-> "s6", title |-> "Wander", priority |-> 100, completed |-> FALSE]}

SlotPools ==
    {getReadyTasks([frontierNodes |-> l]) :
        l \in UNION {{f \in [1..n -> SlotTasks] :
                         \A i, j \in 1..n : f[i] = f[j] => i = j} : n \in 0..MaxPool}}

SlotTimes == {8 * 60 + 59, 9 * 60, 11 * 60 + 59, 12 * 60}
SlotEnergies == 1..5

CallSelectTaskForTimeSlot ==
    /\ call = NoCall
    /\ \E pool \in SlotPools, time \in SlotTimes, e \in SlotEnergies :
          call' = [fn |-> "selectTaskForTimeSlot", pool |-> pool, time |-> time,
                   energyLevel |-> e,
                   out |-> selectTaskForTimeSlot(pool, time, e, "mixed")]
    /\ UNCHANGED <<nodes, packerVars, systemVars>>

InitSlot == IdleResolver /\ IdlePacker /\ IdleSystem

NextSlot == CallSelectTaskForTimeSlot

SpecSlot == InitSlot /\ [][NextSlot]_vars

\* the difficulty band of a slot: at least 2 at energy 4 or more in hours 9
\* to 11, at most 2 at energy 2 or less, at most 3 otherwise
inSlotBand(difficulty, time, energyLevel) ==
    IF energyLevel >= 4 /\ time \in (9 * 60)..(12 * 60 - 1) THEN difficulty >= 2
    ELSE IF energyLevel <= 2 THEN difficulty <= 2
    ELSE difficulty <= 3

\* the positions of the pool the choice is made among: those inside the
\* band, or all when none is inside
slotCandidates(pool, time, energyLevel) ==
    LET inside == {i \in 1..Len(pool) :
                      inSlotBand(IF Has(pool[i], "difficulty") THEN pool[i].difficulty
                                 ELSE 1, time, energyLevel)}
    IN IF inside = {} THEN 1..Len(pool) ELSE inside

\* C34: from a pool sorted by priority, highest first, the task chosen for
\* a slot is the first element inside the difficulty band, or the first
\* element of the pool when none is inside, and no candidate has a higher
\* priority.
C34_FirstCandidateIsChosen ==
    (call.fn = "selectTaskForTimeSlot" /\ call.pool # <<>>) =>
        LET candidates == slotCandidates(call.pool, call.time, call.energyLevel)
            first == CHOOSE i \in candidates : \A j \in candidates : i <= j
        IN /\ call.out = call.pool[first]
           /\ \A j \in candidates :
                  NumOr(call.out, "priority", 200) >= NumOr(call.pool[j], "priority", 200)

\* the head of the pool is outside the band and the second element is chosen
C34_Witness ==
    /\ call.fn = "selectTaskForTimeSlot"
    /\ Len(call.pool) = 2
    /\ call.out = call.pool[2]
    /\ call.out # call.pool[1]

-----------------------------------------------------------------------------
(* Completion over the life of a graph, under SpecLifecycle.                 *)

\* the ids of the completed nodes of a graph document
completedNodeIds(doc) ==
    IF doc = Null THEN {}
    ELSE {n.id : n \in {m \in Range(ListOr(doc, "frontierNodes")
                                     \o ListOr(doc, "frontier_nodes")) :
                           Flag(m, "completed")}}

-----------------------------------------------------------------------------
(* Prerequisites over the life of a graph, under SpecLifecycle.              *)

-----------------------------------------------------------------------------
(* Specification SpecQuiet: a project is created, its tree built and days    *)
(* scheduled (priorityHours bound to the empty filter), and blocks are       *)
(* completed with nothing learned, with and without opportunity signals,     *)
(* next to one completion that reports learning.                             *)

QuietCompletions ==
    {plainCompletion,
     [plainCompletion EXCEPT !.engagementLevel = 9],
     [plainCompletion EXCEPT !.engagementLevel = 9, !.viralPotential = TRUE,
                             !.externalFeedback = <<[sentiment |-> "positive"]>>],
     [plainCompletion EXCEPT !.unexpectedResults = <<"an invitation">>,
                             !.externalFeedback = <<Null>>],
     [plainCompletion EXCEPT !.learned = "scales", !.engagementLevel = 9]}

QuietCompleteBlock ==
    \E id \in knownBlockIds, a \in QuietCompletions : CompleteBlock(id, a)

NextQuiet ==
    \/ LifecycleCreateProject
    \/ BuildHTATree
    \/ LifecycleGenerateDailySchedule
    \/ QuietCompleteBlock

SpecQuiet == InitConcurrent /\ [][NextQuiet]_vars

\* nothing learned, no next question, no breakthrough
isQuiet(a) == a.learned = "" /\ a.nextQuestions = "" /\ ~a.breakthrough

\* the nodes generated from opportunity signals
opportunityNodes(doc) ==
    IF doc = Null THEN {}
    ELSE {n \in Range(ListOr(doc, "frontierNodes")) : Has(n, "opportunityType")}

\* C37: a completeBlock call with empty learned text, empty next questions
\* and no breakthrough that records its completion leaves the graph
\* document as it was: no node changes its completed flag, the ready set is
\* the same, and no opportunity node is added, with or without an attached
\* opportunity context.
C37_QuietCompletionLeavesGraph ==
    [][(/\ historyDoc' # historyDoc
        /\ Has(result', "op") /\ result'.op = "completeBlock"
        /\ isQuiet(result'.args.completion)) =>
           /\ htaDoc' = htaDoc
           /\ completedNodeIds(htaDoc') = completedNodeIds(htaDoc)
           /\ readyIds(htaDoc') = readyIds(htaDoc)
           /\ opportunityNodes(htaDoc') = opportunityNodes(htaDoc)]_vars

\* a learning block completed quietly with an opportunity context attached:
\* its node is still not completed and still ready
C37_Witness ==
    /\ Has(result, "op") /\ result.op = "completeBlock" /\ result.ok
    /\ isQuiet(result.args.completion)
    /\ Has(result.block_completed, "opportunityContext")
    /\ result.block_completed.type = "learning"
    /\ result.block_completed.taskId \in readyIds(htaDoc)
    /\ result.block_completed.taskId \notin completedNodeIds(htaDoc)
    /\ opportunityNodes(htaDoc) = {}

-----------------------------------------------------------------------------
(* The analysis without recent completions, under SpecStrategy.              *)

\* no completed topic of the call's history lies within seven days of the
\* analysis
noRecentCompletion ==
    \A t \in Range(ListOr(call.learningHistory, "completedTopics")) :
        EvolutionNow - t.completedAt > SevenDays

\* C38: with no completion in the trailing seven days the stuck indicators
\* contain no_recent_progress and low_engagement, and when the graph the
\* analysis reads has at least one ready node the recommended evolution is
\* increase_variety_and_interest, for every feedback text and every number
\* of available tasks.
C38_NoRecentCompletionIsLowEngagement ==
    (call.fn = "analyzeCurrentStrategy" /\ noRecentCompletion) =>
        /\ {"no_recent_progress", "low_engagement"}
               \subseteq Range(call.out.stuckIndicators)
        /\ (call.key = "frontier_nodes" /\ Len(getReadyNodes(nodes)) >= 1) =>
               call.out.recommendedEvolution = "increase_variety_and_interest"

\* three ready nodes, a completion eight days old and positive feedback
C38_Witness ==
    /\ call.fn = "analyzeCurrentStrategy"
    /\ call.key = "frontier_nodes"
    /\ call.learningHistory = [completedTopics |-> <<topicAt(0, 5)>>]
    /\ call.feedback = "Great progress"
    /\ Len(getReadyNodes(nodes)) = 3
    /\ call.out.availableTasks = 3
    /\ call.out.recommendedEvolution = "increase_variety_and_interest"

-----------------------------------------------------------------------------
(* Meals and the bounds of the day, under SpecPacker.                        *)

\* the meal blocks of the day that start within 15 minutes of a meal time
mealBlocksFor(mealTime) ==
    {i \in 1..Len(blocks) :
        blocks[i].type = "meal" /\ Abs(startOf(blocks[i]) - mealTime) <= 15}

====
